---- MODULE Spec2Model ----
(***************************************************************************)
(* A model of PyFIT's two-pass FIT decoder (src/FIT/decoder.py):           *)
(*   pass 1  Decoder.decode_file        bytes -> File (header, records)    *)
(*   pass 2  Decoder.decode_fit_messages  records -> typed messages        *)
(* Bytes are integers 0..255; a Python exception is a value of `error'.    *)
(***************************************************************************)
EXTENDS Integers, Sequences, FiniteSets, TLC

VARIABLES
    raw_bytes,              \* ByteReader.raw_bytes
    bytes_read,             \* ByteReader.bytes_read
    crc_current,            \* ByteReader.crc_calculator.current
    message_definitions,    \* Decoder.message_definitions (a dict)
    most_recent_timestamp,  \* Decoder.most_recent_timestamp
    pc,                     \* where the call is
    error,                  \* the exception that ended the call, or Ok
    file_header,            \* decode_file: header
    initial_bytes_read,     \* decode_records: initial_bytes_read
    records,                \* decode_records: records
    file_crc,               \* decode_file: crc
    record_starts,          \* history: bytes_read at each decode_record call
    used_definitions,       \* history: the definition each record was decoded with
    timestamps_before,      \* history: most_recent_timestamp at each decode_record call
    options,                \* decode_fit_messages: the three error_on_* toggles
    position,               \* decode_fit_messages: index of the next record of the loop
    definitions,            \* decode_fit_messages: definitions
    warned_undocumented_msg_num,
    warned_manufacturer_specific_messages,
    warned_undocumented_fields,
    messages,               \* decode_fit_messages: messages
    emitted,                \* history: every warnings.warn call, in order
    resolved_definitions,   \* history: the definition each message was built from
    extracted,              \* history: what extract_fields returned for each message
    elements,               \* Profile.duplicates: the argument
    duplicates_result,      \* Profile.duplicates: what the call returned
    component_value,        \* Profile._parse_*_component_value: val
    num_components,         \* Profile._parse_*_component_value: num_components
    component_result,       \* Profile._parse_*_component_value: what the call returned
    activity_messages,      \* decode_activity: messages
    activity_decoders,      \* decode_activity: activity_decoders
    decoder_index,          \* decode_activity: position of the for loop
    activity_result,        \* decode_activity: what the call returned
    activity_calls,         \* history: the can_decode and decode calls, in order
    indent_count,           \* CodeWriter.indent_count
    writer_content,         \* CodeWriter.content, one character or code string each
    in_fragment,            \* CodeWriter.in_fragment
    writer_calls,           \* history: how many CodeWriter methods were called
    writer_before           \* history: indent_count and content before the last call

reader_vars == <<raw_bytes, bytes_read, crc_current>>
stream_vars == <<message_definitions, most_recent_timestamp, file_header,
                 initial_bytes_read, records, file_crc, record_starts, used_definitions,
                 timestamps_before>>
resolver_vars == <<options, position, definitions, warned_undocumented_msg_num,
                   warned_manufacturer_specific_messages, warned_undocumented_fields,
                   messages, emitted, resolved_definitions,
                   extracted>>
profile_vars == <<elements, duplicates_result, component_value, num_components,
                  component_result>>
activity_vars == <<activity_messages, activity_decoders, decoder_index, activity_result,
                   activity_calls>>
writer_vars == <<indent_count, writer_content, in_fragment, writer_calls, writer_before>>
library_vars == <<profile_vars, activity_vars, writer_vars>>
vars == <<reader_vars, stream_vars, resolver_vars, pc, error, library_vars>>

----------------------------------------------------------------------------
(* Bounds of the model. *)

\* Records of a stream input (well-formed prefix plus one closing chunk).
MaxRecords == 3
\* Records of an input of the framing family (header, data_size, trailer vary).
MaxFramedRecords == 2
\* Length of the argument of Profile.duplicates.
MaxElements == 5
\* Messages handed to decode_activity.
MaxMessages == 3
\* Decoders of a caller's activity_decoders.
MaxDecoders == 2
\* Calls of CodeWriter methods.
MaxCalls == 5
\* Characters of a str handed to Profile._parse_*_component_value.
MaxChars == 3
\* The num_components handed to Profile._parse_*_component_value.
MaxComponents == 3

----------------------------------------------------------------------------
(* Python values. *)

\* None, where the other values are natural numbers.
None == -1

Ok == [kind |-> "none", msg |-> ""]
Raise(kind, msg) == [kind |-> kind, msg |-> msg]
FITFileContentError(msg) == Raise("FITFileContentError", msg)

\* A decoded field value: a scalar, a list, a str, or None.
Scalar(v) == [tag |-> "scalar", items |-> <<v>>]
List(vs) == [tag |-> "list", items |-> vs]
Str(bs) == [tag |-> "str", items |-> bs]
NoneValue == [tag |-> "None", items |-> <<>>]

SeqToSet(s) == {s[i] : i \in 1..Len(s)}

\* The value of a sub-computation, named once and used by what follows it
\* (a local variable of the Python code).
Bind(value, Rest(_)) == CHOOSE result \in {Rest(v) : v \in {value}} : TRUE

----------------------------------------------------------------------------
(* Bit operations on unsigned integers. *)

RECURSIVE Pow2(_)
Pow2(n) == IF n = 0 THEN 1 ELSE 2 * Pow2(n - 1)

RECURSIVE XorBits(_, _, _)
XorBits(a, b, bits) ==
    IF bits = 0 THEN 0
    ELSE ((a + b) % 2) + 2 * XorBits(a \div 2, b \div 2, bits - 1)

\* a ^ b on nibbles, tabulated: XorNibble[a + 1][b + 1]
RECURSIVE XorRow(_, _, _)
XorRow(a, b, row) ==
    IF b = 16 THEN row ELSE XorRow(a, b + 1, Append(row, XorBits(a, b, 4)))

RECURSIVE XorRows(_, _)
XorRows(a, rows) ==
    IF a = 16 THEN rows ELSE XorRows(a + 1, Append(rows, XorRow(a, 0, <<>>)))

XorNibble == XorRows(0, <<>>)

\* a ^ b on 16-bit values, nibble by nibble
BitXor(a, b) ==
    Bind(a, LAMBDA x : Bind(b, LAMBDA y :
    XorNibble[(x % 16) + 1][(y % 16) + 1]
    + 16 * XorNibble[((x \div 16) % 16) + 1][((y \div 16) % 16) + 1]
    + 256 * XorNibble[((x \div 256) % 16) + 1][((y \div 256) % 16) + 1]
    + 4096 * XorNibble[((x \div 4096) % 16) + 1][((y \div 4096) % 16) + 1]))

ShiftRight(a, n) == a \div Pow2(n)

\* Decoder.bit_get: byte & (1 << position) > 0
bit_get(byte, bit_position) == ShiftRight(byte, bit_position) % 2 = 1

----------------------------------------------------------------------------
(* CRCCalculator *)

CRC_TABLE == <<0, 52225, 55297, 5120, 61441, 15360, 10240, 58369,
               40961, 27648, 30720, 46081, 20480, 39937, 34817, 17408>>

\* One nibble step: tmp = table[crc & 0xF]; crc = (crc >> 4) & 0x0FFF;
\* crc = crc ^ tmp ^ table[nibble]
crc_nibble(crc, nibble) ==
    Bind(crc, LAMBDA c :
    BitXor(BitXor(ShiftRight(c, 4) % 4096, CRC_TABLE[(c % 16) + 1]),
           CRC_TABLE[nibble + 1]))

\* new_byte that takes the high nibble of the byte first
C29_new_byte_high_nibble_first(crc, byte) ==
    Bind(byte, LAMBDA b :
    crc_nibble(crc_nibble(crc, ShiftRight(b, 4) % 16), b % 16))

new_byte(crc, byte) ==
    Bind(byte, LAMBDA b :
    crc_nibble(crc_nibble(crc, b % 16), ShiftRight(b, 4) % 16))

\* new_byte(b) for each b of bs[first..last], in order (the range is halved
\* to keep the evaluation shallow).
RECURSIVE crc_feed(_, _, _, _)
crc_feed(crc, bs, first, last) ==
    IF first > last THEN crc
    ELSE IF first = last THEN new_byte(crc, bs[first])
    ELSE Bind((first + last) \div 2, LAMBDA middle :
         Bind(crc_feed(crc, bs, first, middle), LAMBDA half :
         crc_feed(half, bs, middle + 1, last)))

\* reset(); new_byte(b) for each b of bs: the FIT CRC of a byte string.
crc_of(bs) == Bind(bs, LAMBDA b : crc_feed(0, b, 1, Len(b)))

----------------------------------------------------------------------------
(* ByteReader.  A reader state rd is [bytes_read, crc]; raw_bytes never     *)
(* changes.  Every operation returns its result with the reader state it    *)
(* leaves, and err # Ok when it raised.                                     *)

bytes_left(rd) == Len(raw_bytes) - rd.bytes_read

\* read_byte that counts the read that found no byte
C19_read_byte_counts_failed_read(rd) ==
    IF bytes_left(rd) = 0
    THEN [err |-> FITFileContentError("Unexpected end of file encountered"),
          rd |-> [rd EXCEPT !.bytes_read = rd.bytes_read + 1], byte |-> 0]
    ELSE [err |-> Ok,
          rd |-> [bytes_read |-> rd.bytes_read + 1,
                  crc |-> new_byte(rd.crc, raw_bytes[rd.bytes_read + 1])],
          byte |-> raw_bytes[rd.bytes_read + 1]]

read_byte(rd) ==
    IF bytes_left(rd) = 0
    THEN [err |-> FITFileContentError("Unexpected end of file encountered"),
          rd |-> rd, byte |-> 0]
    ELSE [err |-> Ok,
          rd |-> [bytes_read |-> rd.bytes_read + 1,
                  crc |-> new_byte(rd.crc, raw_bytes[rd.bytes_read + 1])],
          byte |-> raw_bytes[rd.bytes_read + 1]]

\* [self.read_byte() for _ in range(0, count)]
RECURSIVE read_bytes_loop(_, _, _)
read_bytes_loop(rd, count, acc) ==
    IF count = 0 THEN [err |-> Ok, rd |-> rd, bytes |-> acc]
    ELSE Bind(read_byte(rd), LAMBDA r :
         IF r.err # Ok THEN [err |-> r.err, rd |-> r.rd, bytes |-> acc]
         ELSE Bind(Append(acc, r.byte), LAMBDA read :
              read_bytes_loop(r.rd, count - 1, read)))

read_bytes(rd, count) == read_bytes_loop(rd, count, <<>>)

\* numpy's view of the bytes as one unsigned integer, in the machine's
\* (little-endian) byte order.
RECURSIVE little_endian(_)
little_endian(bs) ==
    IF bs = <<>> THEN 0 ELSE Head(bs) + 256 * little_endian(Tail(bs))

read_double_byte(rd) ==
    Bind(read_bytes(rd, 2), LAMBDA r :
    [err |-> r.err, rd |-> r.rd,
     value |-> IF r.err = Ok THEN little_endian(r.bytes) ELSE 0])

\* read_quad_byte whose four bytes go past the CRC engine
C24_read_quad_byte_skips_crc(rd) ==
    Bind(read_bytes(rd, 4), LAMBDA r :
    [err |-> r.err, rd |-> [r.rd EXCEPT !.crc = rd.crc],
     value |-> IF r.err = Ok THEN little_endian(r.bytes) ELSE 0])

read_quad_byte(rd) ==
    Bind(read_bytes(rd, 4), LAMBDA r :
    [err |-> r.err, rd |-> r.rd,
     value |-> IF r.err = Ok THEN little_endian(r.bytes) ELSE 0])

----------------------------------------------------------------------------
(* Base types (src/FIT/base_types.py). *)

\* BASE_TYPE_NUMBER_TO_CLASS: base-type number -> metadata.underlying_bytes
BASE_TYPE_NUMBER_TO_CLASS ==
    [n \in 0..16 |->
        CASE n \in {0, 1, 2, 7, 10, 13} -> 1
          [] n \in {3, 4, 11} -> 2
          [] n \in {5, 6, 8, 12} -> 4
          [] OTHER -> 8]

underlying_bytes(base_type) == BASE_TYPE_NUMBER_TO_CLASS[base_type]

\* numpy types int8, int16, int32, int64
is_signed(base_type) == base_type \in {1, 3, 5, 14}

UnsignedInt16_base_type_number == 4
UnsignedInt32_base_type_number == 6
String_base_type_number == 7

RECURSIVE signed_little_endian(_)
signed_little_endian(bs) ==
    IF Len(bs) = 1 THEN (IF Head(bs) >= 128 THEN Head(bs) - 256 ELSE Head(bs))
    ELSE Head(bs) + 256 * signed_little_endian(Tail(bs))

\* One element of np.frombuffer(raw_bytes, dtype): float32 and float64 are
\* kept as their bit pattern.
element(base_type, bs) ==
    IF is_signed(base_type) THEN signed_little_endian(bs) ELSE little_endian(bs)

\* np.frombuffer(raw_bytes, dtype=c.metadata.numpy_type)
frombuffer(base_type, bs) ==
    [i \in 1..(Len(bs) \div underlying_bytes(base_type)) |->
        element(base_type, SubSeq(bs, (i - 1) * underlying_bytes(base_type) + 1,
                                  i * underlying_bytes(base_type)))]

\* base_types.from_bytes(c, raw_bytes), and String.from_bytes
from_bytes(base_type, bs) ==
    IF base_type = String_base_type_number THEN [err |-> Ok, value |-> Str(bs)]
    ELSE IF Len(bs) % underlying_bytes(base_type) # 0
    THEN [err |-> Raise("FITValueDecodingError", "expected to be multiple of bytes"),
          value |-> NoneValue]
    ELSE Bind(frombuffer(base_type, bs), LAMBDA array :
         [err |-> Ok,
          value |-> IF Len(array) = 1 THEN Scalar(array[1]) ELSE List(array)])

\* <Type>.metadata(): metadata is a TypeMetadata instance, a dataclass with no
\* __call__, so the call raises TypeError.
metadata_call(base_type_number) ==
    [err |-> Raise("TypeError", "'TypeMetadata' object is not callable"),
     base_type_number |-> base_type_number]

----------------------------------------------------------------------------
(* Decoder: the record-stream decoder. *)

TIMESTAMP_FIELD_NUMBER == 253
MESSAGE_INDEX_FIELD_NUMBER == 254
PART_INDEX_FIELD_NUMBER == 250

IS_COMPRESSED_TIMESTAMP_HEADER_POSITION == 7
IS_DEFINITION_MESSAGE_POSITION == 6
HAS_DEVELOPER_DATA_POSITION == 5
RESERVED_BIT_POSITION == 4

\* A dict as a function on its keys.
EmptyDict == [k \in {} |-> None]
DictSet(d, key, value) ==
    [k \in (DOMAIN d) \cup {key} |-> IF k = key THEN value ELSE d[k]]

NoHeader == [header_size |-> 0, protocol_version |-> 0, profile_version |-> 0,
             data_size |-> 0, data_type |-> <<>>, crc |-> None]

\* '.FIT'
FIT_DATA_TYPE == <<46, 70, 73, 84>>

\* decode_crc that accepts a stored CRC of 0 whatever allow_zero is
C13_decode_crc_zero_always_allowed(rd, allow_zero) ==
    Bind(rd.crc, LAMBDA computed_crc :
    Bind(read_double_byte(rd), LAMBDA expected_crc :
    IF expected_crc.err # Ok
    THEN [err |-> expected_crc.err, rd |-> expected_crc.rd, crc |-> None]
    ELSE Bind([expected_crc.rd EXCEPT !.crc = 0], LAMBDA reset :
         IF expected_crc.value = 0
         THEN [err |-> Ok, rd |-> reset, crc |-> expected_crc.value]
         ELSE IF computed_crc # expected_crc.value
         THEN [err |-> FITFileContentError("Invalid CRC"), rd |-> reset, crc |-> None]
         ELSE [err |-> Ok, rd |-> reset, crc |-> expected_crc.value])))

decode_crc(rd, allow_zero) ==
    Bind(rd.crc, LAMBDA computed_crc :
    Bind(read_double_byte(rd), LAMBDA expected_crc :
    IF expected_crc.err # Ok
    THEN [err |-> expected_crc.err, rd |-> expected_crc.rd, crc |-> None]
    ELSE Bind([expected_crc.rd EXCEPT !.crc = 0], LAMBDA reset :
         IF allow_zero /\ expected_crc.value = 0
         THEN [err |-> Ok, rd |-> reset, crc |-> expected_crc.value]
         ELSE IF computed_crc # expected_crc.value
         THEN [err |-> FITFileContentError("Invalid CRC"), rd |-> reset, crc |-> None]
         ELSE [err |-> Ok, rd |-> reset, crc |-> expected_crc.value])))

HeaderRaised(err, rd) == [err |-> err, rd |-> rd, header |-> NoHeader]

\* header_size in [12, 14] with every size from 12 to 14 let through
C12_valid_header_size_up_to_14(header_size) == header_size \in 12..14

\* header_size in [12, 14]
valid_header_size(header_size) == header_size \in {12, 14}

decode_file_header(rd) ==
    Bind(read_byte(rd), LAMBDA header_size :
    IF header_size.err # Ok THEN HeaderRaised(header_size.err, header_size.rd) ELSE
    Bind(read_byte(header_size.rd), LAMBDA protocol_version :
    IF protocol_version.err # Ok
    THEN HeaderRaised(protocol_version.err, protocol_version.rd) ELSE
    Bind(read_double_byte(protocol_version.rd), LAMBDA profile_version :
    IF profile_version.err # Ok
    THEN HeaderRaised(profile_version.err, profile_version.rd) ELSE
    Bind(read_quad_byte(profile_version.rd), LAMBDA data_size :
    IF data_size.err # Ok THEN HeaderRaised(data_size.err, data_size.rd) ELSE
    Bind(read_bytes(data_size.rd, 4), LAMBDA data_type :
    IF data_type.err # Ok THEN HeaderRaised(data_type.err, data_type.rd) ELSE
    IF ~valid_header_size(header_size.byte)
    THEN HeaderRaised(FITFileContentError("Invalid header size"), data_type.rd) ELSE
    IF data_type.bytes # FIT_DATA_TYPE
    THEN HeaderRaised(FITFileContentError("Invalid header text"), data_type.rd) ELSE
    Bind(IF header_size.byte = 14 THEN decode_crc(data_type.rd, TRUE)
         ELSE [err |-> Ok, rd |-> data_type.rd, crc |-> None], LAMBDA crc :
    IF crc.err # Ok THEN HeaderRaised(crc.err, crc.rd) ELSE
    [err |-> Ok, rd |-> crc.rd,
     header |-> [header_size |-> header_size.byte,
                 protocol_version |-> protocol_version.byte,
                 profile_version |-> profile_version.value,
                 data_size |-> data_size.value,
                 data_type |-> data_type.bytes,
                 crc |-> crc.crc]]))))))

decode_normal_record_header(header) ==
    LET is_definition_message == bit_get(header, IS_DEFINITION_MESSAGE_POSITION)
        has_developer_data == bit_get(header, HAS_DEVELOPER_DATA_POSITION)
        reserved_bit == bit_get(header, RESERVED_BIT_POSITION)
    IN  [err |-> IF reserved_bit
                 THEN FITFileContentError("Reserved bit on record header is 1, expected 0")
                 ELSE Ok,
         header |-> [is_normal_header |-> TRUE,
                     is_definition_message |-> is_definition_message,
                     has_developer_data |-> has_developer_data,
                     local_message_type |-> header % 16,
                     time_offset |-> None,
                     previous_Timestamp |-> None]]

\* A compressed-timestamp header read with the masks of the normal header
C23_compressed_header_low_bits(header_byte, timestamp) ==
    [err |-> Ok,
     header |-> [is_normal_header |-> FALSE,
                 is_definition_message |-> FALSE,
                 has_developer_data |-> FALSE,
                 local_message_type |-> header_byte % 16,
                 time_offset |-> header_byte % 32,
                 previous_Timestamp |-> timestamp]]

decode_compressed_timestamp_record_header(header_byte, timestamp) ==
    [err |-> Ok,
     header |-> [is_normal_header |-> FALSE,
                 is_definition_message |-> FALSE,
                 has_developer_data |-> FALSE,
                 local_message_type |-> ShiftRight(header_byte, 5) % 4,
                 time_offset |-> header_byte % 32,
                 previous_Timestamp |-> timestamp]]

NoRecordHeader == [is_normal_header |-> TRUE, is_definition_message |-> FALSE,
                   has_developer_data |-> FALSE, local_message_type |-> 0,
                   time_offset |-> None, previous_Timestamp |-> None]

\* type_byte & 64: reserved_bits_of that tests bit 6 only
C4_reserved_bits_bit6_only(type_byte) == (ShiftRight(type_byte, 6) % 2) * 64

\* type_byte & 96
reserved_bits_of(type_byte) == (ShiftRight(type_byte, 5) % 4) * 32

NoFieldDefinition == [number |-> 0, size |-> 0, endian_ability |-> FALSE, base_type |-> 0]

decode_field_definition(rd) ==
    Bind(read_byte(rd), LAMBDA number :
    IF number.err # Ok
    THEN [err |-> number.err, rd |-> number.rd, fd |-> NoFieldDefinition] ELSE
    Bind(read_byte(number.rd), LAMBDA size :
    IF size.err # Ok
    THEN [err |-> size.err, rd |-> size.rd, fd |-> NoFieldDefinition] ELSE
    Bind(read_byte(size.rd), LAMBDA type_byte :
    IF type_byte.err # Ok
    THEN [err |-> type_byte.err, rd |-> type_byte.rd, fd |-> NoFieldDefinition] ELSE
    IF reserved_bits_of(type_byte.byte) # 0
    THEN [err |-> FITFileContentError("Invalid FieldDefinition reserved bits"),
          rd |-> type_byte.rd, fd |-> NoFieldDefinition]
    ELSE [err |-> Ok, rd |-> type_byte.rd,
          fd |-> [number |-> number.byte, size |-> size.byte,
                  endian_ability |-> bit_get(type_byte.byte, 7),
                  base_type |-> type_byte.byte % 32]])))

\* [self.decode_field_definition() for _ in range(0, count)]
RECURSIVE decode_field_definitions(_, _, _)
decode_field_definitions(rd, count, acc) ==
    IF count = 0 THEN [err |-> Ok, rd |-> rd, fds |-> acc]
    ELSE Bind(decode_field_definition(rd), LAMBDA r :
         IF r.err # Ok THEN [err |-> r.err, rd |-> r.rd, fds |-> acc]
         ELSE Bind(Append(acc, r.fd), LAMBDA decoded :
              decode_field_definitions(r.rd, count - 1, decoded)))

NoDefinition == [type |-> "MessageDefinition", reserved_byte |-> 0, architecture |-> 0,
                 global_message_number |-> 0, field_definitions |-> <<>>,
                 developer_field_definitions |-> <<>>]

\* Architecture(value): LittleEndian = 0, BigEndian = 1, ValueError otherwise
Architecture(value) ==
    [err |-> IF value \in {0, 1} THEN Ok
             ELSE Raise("ValueError", "is not a valid Architecture"),
     value |-> value]

\* A call of decode_record that raised: the reader, the definition table and
\* the timestamp as the call leaves them.
Raised(err, rd, md, ts) ==
    [err |-> err, rd |-> rd, md |-> md, ts |-> ts, content |-> NoDefinition,
     used |-> NoDefinition, header |-> NoRecordHeader]

\* decode_message_definition_store that keeps the first binding of a local type
C3_store_keeps_first(md, local_message_type, definition) ==
    IF local_message_type \in DOMAIN md THEN md
    ELSE DictSet(md, local_message_type, definition)

\* self.message_definitions[header.local_message_type] = definition
decode_message_definition_store(md, local_message_type, definition) ==
    DictSet(md, local_message_type, definition)

decode_message_definition(rd, md, ts, header) ==
    Bind(read_byte(rd), LAMBDA reserved_byte :
    IF reserved_byte.err # Ok THEN Raised(reserved_byte.err, reserved_byte.rd, md, ts) ELSE
    IF reserved_byte.byte # 0
    THEN Raised(FITFileContentError("Reserved byte after record header is not 0"),
                reserved_byte.rd, md, ts) ELSE
    Bind(read_byte(reserved_byte.rd), LAMBDA architecture_byte :
    IF architecture_byte.err # Ok
    THEN Raised(architecture_byte.err, architecture_byte.rd, md, ts) ELSE
    Bind(Architecture(architecture_byte.byte), LAMBDA architecture :
    IF architecture.err # Ok
    THEN Raised(architecture.err, architecture_byte.rd, md, ts) ELSE
    Bind(read_bytes(architecture_byte.rd, 2), LAMBDA gmn_bytes :
    IF gmn_bytes.err # Ok THEN Raised(gmn_bytes.err, gmn_bytes.rd, md, ts) ELSE
    Bind(from_bytes(UnsignedInt16_base_type_number, gmn_bytes.bytes),
         LAMBDA global_message_number :
    Bind(read_byte(gmn_bytes.rd), LAMBDA number_of_fields :
    IF number_of_fields.err # Ok
    THEN Raised(number_of_fields.err, number_of_fields.rd, md, ts) ELSE
    Bind(decode_field_definitions(number_of_fields.rd, number_of_fields.byte, <<>>),
         LAMBDA field_definitions :
    IF field_definitions.err # Ok
    THEN Raised(field_definitions.err, field_definitions.rd, md, ts) ELSE
    Bind(IF header.has_developer_data THEN read_byte(field_definitions.rd)
         ELSE [err |-> Ok, rd |-> field_definitions.rd, byte |-> 0],
         LAMBDA number_of_developer_fields :
    IF number_of_developer_fields.err # Ok
    THEN Raised(number_of_developer_fields.err, number_of_developer_fields.rd, md, ts) ELSE
    Bind(decode_field_definitions(number_of_developer_fields.rd,
                                  number_of_developer_fields.byte, <<>>),
         LAMBDA developer_field_definitions :
    IF developer_field_definitions.err # Ok
    THEN Raised(developer_field_definitions.err, developer_field_definitions.rd, md, ts) ELSE
    Bind([type |-> "MessageDefinition",
          reserved_byte |-> reserved_byte.byte,
          architecture |-> architecture.value,
          global_message_number |-> global_message_number.value.items[1],
          field_definitions |-> field_definitions.fds,
          developer_field_definitions |-> developer_field_definitions.fds],
         LAMBDA definition :
    [err |-> Ok, rd |-> developer_field_definitions.rd,
     md |-> decode_message_definition_store(md, header.local_message_type, definition),
     ts |-> ts, content |-> definition, used |-> definition,
     header |-> header]))))))))))

\* The three special field numbers of decode_field, after the value is decoded.
decode_field_checks(field_definition, decoded_value, ts) ==
    Bind(metadata_call(UnsignedInt16_base_type_number), LAMBDA u16 :
    Bind(metadata_call(UnsignedInt32_base_type_number), LAMBDA u32 :
    Bind(IF field_definition.number # MESSAGE_INDEX_FIELD_NUMBER THEN Ok
         ELSE IF u16.err # Ok THEN u16.err
         ELSE IF field_definition.base_type # u16.base_type_number
         THEN FITFileContentError("Message Index field number is expected to be of type")
         ELSE Ok, LAMBDA message_index :
    Bind(IF field_definition.number # PART_INDEX_FIELD_NUMBER THEN Ok
         ELSE IF u32.err # Ok THEN u32.err
         ELSE IF field_definition.base_type # u32.base_type_number
         THEN FITFileContentError("Part Index field number is expected to be of type")
         ELSE Ok, LAMBDA part_index :
    Bind(IF field_definition.number # TIMESTAMP_FIELD_NUMBER THEN Ok
         ELSE IF u32.err # Ok THEN u32.err
         ELSE IF field_definition.base_type # u32.base_type_number
         THEN FITFileContentError("Timestamp field number is expected to be of type")
         ELSE Ok, LAMBDA timestamp :
    IF message_index # Ok THEN [err |-> message_index, ts |-> ts]
    ELSE IF part_index # Ok THEN [err |-> part_index, ts |-> ts]
    ELSE IF timestamp # Ok THEN [err |-> timestamp, ts |-> ts]
    ELSE IF field_definition.number = TIMESTAMP_FIELD_NUMBER
    THEN [err |-> Ok, ts |-> decoded_value]
    ELSE [err |-> Ok, ts |-> ts])))))

FieldRaised(err, rd, ts) == [err |-> err, rd |-> rd, ts |-> ts, field |-> NoneValue]

decode_field(rd, ts, field_definition) ==
    Bind(read_bytes(rd, field_definition.size), LAMBDA raw :
    IF raw.err # Ok THEN FieldRaised(raw.err, raw.rd, ts) ELSE
    IF field_definition.base_type \notin DOMAIN BASE_TYPE_NUMBER_TO_CLASS
    THEN FieldRaised(Raise("KeyError", "BASE_TYPE_NUMBER_TO_CLASS"), raw.rd, ts) ELSE
    Bind(from_bytes(field_definition.base_type, raw.bytes), LAMBDA decoded_value :
    IF decoded_value.err # Ok THEN FieldRaised(decoded_value.err, raw.rd, ts) ELSE
    Bind(decode_field_checks(field_definition, decoded_value.value, ts), LAMBDA checks :
    IF checks.err # Ok THEN FieldRaised(checks.err, raw.rd, ts)
    ELSE [err |-> Ok, rd |-> raw.rd, ts |-> checks.ts, field |-> decoded_value.value])))

\* [self.decode_field(d) for d in field_definitions]
RECURSIVE decode_fields(_, _, _, _, _)
decode_fields(rd, ts, field_definitions, i, acc) ==
    IF i > Len(field_definitions) THEN [err |-> Ok, rd |-> rd, ts |-> ts, fields |-> acc]
    ELSE Bind(decode_field(rd, ts, field_definitions[i]), LAMBDA r :
         IF r.err # Ok THEN [err |-> r.err, rd |-> r.rd, ts |-> r.ts, fields |-> acc]
         ELSE Bind(Append(acc, [value |-> r.field]), LAMBDA decoded :
              decode_fields(r.rd, r.ts, field_definitions, i + 1, decoded)))

\* What dict.get returns for a key the dict lacks.
NoneDefinition == [type |-> "NoneType"]

\* message_definitions.get that falls back to the definition of local type 0
C18_get_falls_back_to_type_0(md, local_message_type) ==
    IF local_message_type \in DOMAIN md THEN md[local_message_type]
    ELSE IF 0 \in DOMAIN md THEN md[0]
    ELSE NoneDefinition

\* self.message_definitions.get(header.local_message_type)
message_definitions_get(md, local_message_type) ==
    IF local_message_type \in DOMAIN md THEN md[local_message_type] ELSE NoneDefinition

decode_message_content(rd, md, ts, header) ==
    Bind(message_definitions_get(md, header.local_message_type),
         LAMBDA message_definition :
    IF message_definition = NoneDefinition
    THEN Raised(FITFileContentError("Unable to find local message type definition"),
                rd, md, ts) ELSE
    Bind(decode_fields(rd, ts, message_definition.field_definitions, 1, <<>>),
         LAMBDA fields :
    IF fields.err # Ok THEN Raised(fields.err, fields.rd, md, fields.ts) ELSE
    Bind(decode_fields(fields.rd, fields.ts,
                       message_definition.developer_field_definitions, 1, <<>>),
         LAMBDA developer_fields :
    IF developer_fields.err # Ok
    THEN Raised(developer_fields.err, developer_fields.rd, md, developer_fields.ts) ELSE
    [err |-> Ok, rd |-> developer_fields.rd, md |-> md, ts |-> developer_fields.ts,
     content |-> [type |-> "MessageContent", fields |-> fields.fields,
                  developer_fields |-> developer_fields.fields],
     used |-> message_definition, header |-> header])))

decode_record(rd, md, ts) ==
    Bind(read_byte(rd), LAMBDA header_byte :
    IF header_byte.err # Ok THEN Raised(header_byte.err, header_byte.rd, md, ts) ELSE
    Bind(IF bit_get(header_byte.byte, IS_COMPRESSED_TIMESTAMP_HEADER_POSITION)
         THEN decode_compressed_timestamp_record_header(header_byte.byte, ts)
         ELSE decode_normal_record_header(header_byte.byte), LAMBDA header :
    IF header.err # Ok THEN Raised(header.err, header_byte.rd, md, ts) ELSE
    IF header.header.is_definition_message
    THEN decode_message_definition(header_byte.rd, md, ts, header.header)
    ELSE decode_message_content(header_byte.rd, md, ts, header.header)))

----------------------------------------------------------------------------
(* The profile: FIT.types.MesgNum and the classes of FIT.messages, which    *)
(* the code generator writes from the profile workbook.  Two message kinds  *)
(* and one enum stand for the catalogue.                                    *)

FileIdNum == 0
RecordNum == 20
MfgRangeMin == 65280
MfgRangeMax == 65534

\* MesgNum._value2member_map_: the values of MesgNum's members.  MfgRangeMin
\* and MfgRangeMax are members (decode_fit_messages reads their .value).
ProfileMesgNums == {FileIdNum, RecordNum}
MesgNum_value2member_map == ProfileMesgNums \cup {MfgRangeMin, MfgRangeMax}

\* MesgNum(value).name
MesgNum_name(value) ==
    CASE value = FileIdNum -> "FileId"
      [] value = RecordNum -> "Record"
      [] value = MfgRangeMin -> "MfgRangeMin"
      [] OTHER -> "MfgRangeMax"

\* message.fields of the profile, per generated class
ProfileFields(class_name) ==
    CASE class_name = "FileId" ->
            <<[number |-> 0, name |-> "type", type |-> "File"]>>
      [] class_name = "Record" ->
            <<[number |-> 253, name |-> "timestamp", type |-> "DateTime"],
              [number |-> 3, name |-> "heart_rate", type |-> "UnsignedInt8"],
              [number |-> 4, name |-> "cadence", type |-> "UnsignedInt8"]>>
      [] OTHER -> <<>>

\* The values of the members of the enum File of FIT.types (activity = 4)
FileValues == {4}
EnumTypes == {"File"}
EnumValues(type) == FileValues

----------------------------------------------------------------------------
(* Decoder: the typed-message resolver. *)

ManufacturerSpecificMessage == "ManufacturerSpecificMessage"
UndocumentedMessage == "UndocumentedMessage"

\* <class>.expected_field_numbers(): () for the two classes of model.py, the
\* numbers of the profile's fields for a generated class.
expected_field_numbers(class_name) ==
    IF class_name \in {ManufacturerSpecificMessage, UndocumentedMessage} THEN <<>>
    ELSE [i \in 1..Len(ProfileFields(class_name)) |-> ProfileFields(class_name)[i].number]

\* MesgNum.MfgRangeMin.value <= g <= MesgNum.MfgRangeMax.value
is_manufacturer_specific(global_message_number) ==
    MfgRangeMin <= global_message_number /\ global_message_number <= MfgRangeMax

\* The texts of the three warnings (and errors), as the values that make
\* two texts differ.
ManufacturerSpecificText(global_message_number) ==
    [text |-> "DefinitionMessage references MesgNum which is manufacturer specific",
     class_name |-> "", number |-> global_message_number]
NotDocumentedText(global_message_number) ==
    [text |-> "DefinitionMessage references MesgNum which is not documented",
     class_name |-> "", number |-> global_message_number]
UndocumentedFieldText(class_name, number) ==
    [text |-> "message has undocumented field number",
     class_name |-> class_name, number |-> number]

\* not_yet_warned that never finds the text
C8_not_yet_warned_always(message, warned) == TRUE

\* if message not in warned
not_yet_warned(message, warned) == message \notin SeqToSet(warned)

\* if message not in warned: warnings.warn(message); warned.append(message)
warn_once(message, warned) ==
    IF not_yet_warned(message, warned)
    THEN [warned |-> Append(warned, message), emitted |-> <<message>>]
    ELSE [warned |-> warned, emitted |-> <<>>]

\* The definition branch of the loop of decode_fit_messages, after the
\* definition is stored: what it raises, and what it warns of.
classify_definition(global_message_number, opts, warned_mfg, warned_undoc) ==
    IF global_message_number \in MesgNum_value2member_map
    THEN [err |-> Ok, warned_mfg |-> warned_mfg, warned_undoc |-> warned_undoc,
          emitted |-> <<>>]
    ELSE IF is_manufacturer_specific(global_message_number)
    THEN Bind(warn_once(ManufacturerSpecificText(global_message_number), warned_mfg),
              LAMBDA w :
         [err |-> Ok, warned_mfg |-> w.warned, warned_undoc |-> warned_undoc,
          emitted |-> w.emitted])
    ELSE IF opts.error_on_undocumented_message
    THEN [err |-> FITFileContentError(NotDocumentedText(global_message_number).text),
          warned_mfg |-> warned_mfg, warned_undoc |-> warned_undoc, emitted |-> <<>>]
    ELSE Bind(warn_once(NotDocumentedText(global_message_number), warned_undoc),
              LAMBDA w :
         [err |-> Ok, warned_mfg |-> warned_mfg, warned_undoc |-> w.warned,
          emitted |-> w.emitted])

\* message_class without its last branch
C9_message_class_never_undocumented(global_message_number) ==
    IF is_manufacturer_specific(global_message_number) THEN ManufacturerSpecificMessage
    ELSE IF global_message_number \in MesgNum_value2member_map
    THEN MesgNum_name(global_message_number)
    ELSE ManufacturerSpecificMessage

\* The class the data branch builds: message_class and class_name
message_class(global_message_number) ==
    IF is_manufacturer_specific(global_message_number) THEN ManufacturerSpecificMessage
    ELSE IF global_message_number \in MesgNum_value2member_map
    THEN MesgNum_name(global_message_number)
    ELSE UndocumentedMessage

\* MessageDefinition.mapped_field_definitions: {number: (i, definition)}, as
\* the keys in insertion order and the entry of each key.
RECURSIVE mapped_field_definitions_loop(_, _, _)
mapped_field_definitions_loop(field_definitions, i, mapped) ==
    IF i > Len(field_definitions) THEN mapped
    ELSE Bind(field_definitions[i], LAMBDA definition :
         Bind([keys |-> IF definition.number \in DOMAIN mapped.entries THEN mapped.keys
                        ELSE Append(mapped.keys, definition.number),
               entries |-> DictSet(mapped.entries, definition.number,
                                   [position |-> i, definition |-> definition])],
              LAMBDA next :
         mapped_field_definitions_loop(field_definitions, i + 1, next)))

mapped_field_definitions(definition) ==
    mapped_field_definitions_loop(definition.field_definitions, 1,
                                  [keys |-> <<>>, entries |-> EmptyDict])

\* Decoder.extract_developer_fields: the loop body is `pass'
extract_developer_fields(record, message_definition) == <<>>

\* The test of extract_undocumented_fields with "in" for "not in"
C6_is_undocumented_inverted(field_id, expected) == field_id \in SeqToSet(expected)

\* if field_id not in expected_field_numbers
is_undocumented(field_id, expected) == field_id \notin SeqToSet(expected)

RECURSIVE extract_undocumented_fields_loop(_, _, _, _, _)
extract_undocumented_fields_loop(content, mapped, expected, k, undocumented) ==
    IF k > Len(mapped.keys) THEN undocumented
    ELSE Bind(mapped.entries[mapped.keys[k]], LAMBDA entry :
         Bind(IF is_undocumented(mapped.keys[k], expected)
              THEN Append(undocumented,
                          [definition |-> entry.definition,
                           value |-> content.fields[entry.position].value])
              ELSE undocumented, LAMBDA next :
         extract_undocumented_fields_loop(content, mapped, expected, k + 1, next)))

extract_undocumented_fields(content, definition, expected) ==
    Bind(mapped_field_definitions(definition), LAMBDA mapped :
    extract_undocumented_fields_loop(content, mapped, expected, 1, <<>>))

\* One iteration of the loop of extract_fields
extract_field(content, mapped, field_number, extracted_fields) ==
    IF field_number \in DOMAIN mapped.entries
    THEN DictSet(extracted_fields, field_number,
                 content.fields[mapped.entries[field_number].position].value)
    ELSE DictSet(extracted_fields, field_number, NoneValue)

RECURSIVE extract_fields_loop(_, _, _, _, _)
extract_fields_loop(content, mapped, expected, k, extracted_fields) ==
    IF k > Len(expected) THEN extracted_fields
    ELSE Bind(extract_field(content, mapped, expected[k], extracted_fields),
              LAMBDA next :
         extract_fields_loop(content, mapped, expected, k + 1, next))

extract_fields(content, definition, expected) ==
    Bind(mapped_field_definitions(definition), LAMBDA mapped :
    extract_fields_loop(content, mapped, expected, 1, EmptyDict))

\* Decoder.cast_value for a scalar or None.  new_type(value) raises ValueError
\* when value is not a value of the enum.
Invalid == [tag |-> "Invalid", items |-> <<>>]
cast_value(value, new_type, error_on_invalid_enum_value) ==
    IF value = NoneValue THEN [err |-> Ok, value |-> NoneValue]
    ELSE IF value.items[1] \in EnumValues(new_type)
    THEN [err |-> Ok, value |-> value]
    ELSE IF error_on_invalid_enum_value
    THEN [err |-> Raise("ValueError", "is not a valid enum value"), value |-> NoneValue]
    ELSE [err |-> Ok, value |-> Invalid]

\* <class>.from_extracted_fields: each field of the generated class is
\* extracted_fields[number]; the two classes of model.py keep no field.
from_extracted_fields(class_name, extracted_fields, developer_fields, undocumented_fields, error_on_invalid_enum_value) ==
    [class_name |-> class_name,
     fields |-> [i \in 1..Len(ProfileFields(class_name)) |->
                    [name |-> ProfileFields(class_name)[i].name,
                     value |-> extracted_fields[ProfileFields(class_name)[i].number]]],
     developer_fields |-> developer_fields,
     undocumented_fields |-> undocumented_fields]

\* The test of the reporting loop with the toggle left out
C25_undocumented_field_never_raises(opts) == FALSE

\* if error_on_undocumented_field
undocumented_field_raises(opts) == opts.error_on_undocumented_field

\* for undocumented_field in message.undocumented_fields: raise, or warn once
RECURSIVE report_undocumented_fields(_, _, _, _, _, _)
report_undocumented_fields(class_name, undocumented_fields, k, opts, warned, emitted_now) ==
    IF k > Len(undocumented_fields)
    THEN [err |-> Ok, warned |-> warned, emitted |-> emitted_now]
    ELSE Bind(UndocumentedFieldText(class_name, undocumented_fields[k].definition.number),
              LAMBDA error_message :
         IF undocumented_field_raises(opts)
         THEN [err |-> FITFileContentError(error_message.text), warned |-> warned,
               emitted |-> emitted_now]
         ELSE Bind(warn_once(error_message, warned), LAMBDA w :
              Bind(emitted_now \o w.emitted, LAMBDA next :
              report_undocumented_fields(class_name, undocumented_fields, k + 1, opts,
                                         w.warned, next))))

\* definitions keyed by the global message number of the definition
C30_definitions_store_by_global_number(defs, record) ==
    DictSet(defs, record.content.global_message_number, record.content)

\* definitions[record.header.local_message_type] = record.content
definitions_store(defs, record) ==
    DictSet(defs, record.header.local_message_type, record.content)

\* The data branch of the loop of decode_fit_messages, from the class choice
\* to the reporting loop.
build_message(record, message_definition, opts, warned) ==
    Bind(message_class(message_definition.global_message_number), LAMBDA class_name :
    Bind(extract_developer_fields(record, message_definition), LAMBDA developer_fields :
    Bind(expected_field_numbers(class_name), LAMBDA expected :
    Bind(extract_undocumented_fields(record.content, message_definition, expected),
         LAMBDA undocumented_fields :
    Bind(extract_fields(record.content, message_definition, expected), LAMBDA fields :
    Bind(from_extracted_fields(class_name, fields, developer_fields, undocumented_fields,
                               opts.error_on_invalid_enum_value), LAMBDA message :
    Bind(report_undocumented_fields(class_name, message.undocumented_fields, 1, opts,
                                    warned, <<>>), LAMBDA reported :
    [err |-> reported.err, warned |-> reported.warned, emitted |-> reported.emitted,
     message |-> message, fields |-> fields])))))))

----------------------------------------------------------------------------
(* The inputs: byte strings handed to ByteReader(raw_bytes).               *)

le16(v) == <<v % 256, v \div 256>>

RECURSIVE Flatten(_)
Flatten(ss) == IF ss = <<>> THEN <<>> ELSE Head(ss) \o Flatten(Tail(ss))

\* The first 12 bytes of a file header: size, protocol version 1.0, profile
\* version 0, data_size (little-endian), '.FIT'.
FileHeaderBytes(header_size, data_size) ==
    <<header_size, 16, 0, 0, data_size % 256, data_size \div 256, 0, 0>> \o FIT_DATA_TYPE

\* A definition record: header byte, reserved byte, architecture, global
\* message number (little-endian), field count, 3 bytes per field.
DefinitionBytes(header_byte, reserved_byte, architecture, global_message_number, fields) ==
    <<header_byte, reserved_byte, architecture>> \o le16(global_message_number)
        \o <<Len(fields)>> \o Flatten(fields)


\* Local type 0 bound to record (20): heart_rate (3, uint8) and a field the
\* profile does not list (200, uint8).
DefRecord0 == DefinitionBytes(64, 0, 0, RecordNum, <<(<<3, 1, 2>>), (<<200, 1, 2>>)>>)
\* Local type 0 bound to file_id (0): type (0, enum).
DefFileId0 == DefinitionBytes(64, 0, 0, FileIdNum, <<(<<0, 1, 0>>)>>)
\* Local type 1 bound to a global number the profile does not list (65000),
\* to one inside the manufacturer-specific range (65281) and to the first of
\* that range (MfgRangeMin).
DefUndocumented1 == DefinitionBytes(65, 0, 0, 65000, <<(<<1, 1, 2>>)>>)
DefMfgInterior1 == DefinitionBytes(65, 0, 0, 65281, <<(<<1, 1, 2>>)>>)
DefMfgMin1 == DefinitionBytes(65, 0, 0, MfgRangeMin, <<(<<1, 1, 2>>)>>)
\* Data records: normal header of local type 0 with one byte (4, or 99) and
\* with two bytes, compressed-timestamp header of local type 0, normal header
\* of local type 1.
Data0 == <<0, 4>>
Data0Other == <<0, 99>>
Data0Two == <<0, 75, 7>>
DataCompressed0 == <<133, 4>>
\* Compressed-timestamp header of local type 1 and time offset 5.
DataCompressed1 == <<165, 5>>
Data1 == <<1, 5>>
\* Local type 0 bound to record (20) with developer data (header bit 5):
\* heart_rate (3, uint8) and one developer field of one byte.  Data0Two is a
\* data record of this definition.
DefDeveloper0 == <<96, 0, 0>> \o le16(RecordNum) \o <<1>> \o <<3, 1, 2>> \o <<1>> \o <<0, 1, 0>>

\* The records a stream is made of, and all well-formed records.
CoreChunks == {DefRecord0, DefFileId0, DefUndocumented1, Data0, Data0Two, Data1}
WellFormedChunks ==
    CoreChunks \cup {DefMfgInterior1, DefMfgMin1, Data0Other, DataCompressed0,
                     DefDeveloper0}

\* Chunks that end a stream: decoding stops in them, or the file ends there.
ReservedBitHeader == <<16>>
DefReservedByte == DefinitionBytes(64, 1, 0, RecordNum, <<>>)
DefReservedTypeBits == DefinitionBytes(64, 0, 0, RecordNum, <<(<<3, 1, 2>>), (<<4, 1, 34>>)>>)
DefTimestampUInt8 == DefinitionBytes(64, 0, 0, RecordNum, <<(<<253, 1, 2>>)>>)
DefMessageIndexUInt8 == DefinitionBytes(64, 0, 0, RecordNum, <<(<<254, 1, 2>>)>>)
DefPartIndexUInt8 == DefinitionBytes(64, 0, 0, RecordNum, <<(<<250, 1, 2>>)>>)
DataUndefined2 == <<2, 0>>
\* A compressed-timestamp header of local type 3, which no definition binds.
DataCompressedUndefined3 == <<224, 0>>
\* A definition with developer data (header bit 5): no field, one developer
\* field whose type byte has bit 5 set.
DefDeveloperReservedTypeBits ==
    <<96, 0, 0>> \o le16(RecordNum) \o <<0, 1>> \o <<0, 1, 34>>

\* A definition whose architecture byte is 2, and one whose field has the
\* base-type number 17, which BASE_TYPE_NUMBER_TO_CLASS does not list.
DefArchitecture2 == DefinitionBytes(64, 0, 2, RecordNum, <<(<<3, 1, 2>>)>>)
DefBaseType17 == DefinitionBytes(64, 0, 0, RecordNum, <<(<<3, 1, 17>>)>>)

\* Definitions whose field 3 has size 0 (uint8), size 1 for a uint16 and
\* size 2 for a uint8, and a data record with no field byte.
DefSize0 == DefinitionBytes(64, 0, 0, RecordNum, <<(<<3, 0, 2>>)>>)
DefUInt16Size1 == DefinitionBytes(64, 0, 0, RecordNum, <<(<<3, 1, 132>>)>>)
DefUInt8Size2 == DefinitionBytes(64, 0, 0, RecordNum, <<(<<3, 2, 2>>)>>)
DataNoField0 == <<0>>

\* Local type 1 with architecture 1 (big-endian); the two bytes of the global
\* message number are 0, 20.
DefBigEndian1 == DefinitionBytes(65, 0, 1, 256 * RecordNum, <<(<<1, 1, 2>>)>>)

\* Local type 0 bound to record (20) with the timestamp (253, uint32, four
\* bytes), and a data record of it.
DefTimestamp0 == DefinitionBytes(64, 0, 0, RecordNum, <<(<<253, 4, 134>>)>>)
DataTimestamp0 == <<0, 1, 2, 3, 4>>

\* Local type 0 bound to record (20) with the field 200 listed twice; Data0Two
\* is a data record of it.
DefRepeatedField0 == DefinitionBytes(64, 0, 0, RecordNum, <<(<<200, 1, 2>>), (<<200, 1, 2>>)>>)

ClosingChunks ==
    {ReservedBitHeader, DefReservedByte, DefReservedTypeBits,
     DefTimestampUInt8, DefTimestampUInt8 \o Data0,
     DefMessageIndexUInt8 \o Data0, DefPartIndexUInt8 \o Data0,
     DataUndefined2, DefDeveloperReservedTypeBits,
     DefArchitecture2, DefBaseType17 \o Data0,
     DefSize0 \o DataNoField0, DefUInt16Size1 \o Data0, DefUInt8Size2 \o Data0Two,
     DefBigEndian1, DefTimestamp0 \o DataTimestamp0, DataCompressedUndefined3,
     DefRepeatedField0 \o Data0Two, DefUndocumented1 \o DataCompressed1}

\* The n-th record of the framing family: a definition, then its data records.
FramingRecord(n) == IF n = 1 THEN DefFileId0 ELSE Data0

RECURSIVE Bodies(_, _)
Bodies(n, chunks) ==
    IF n = 0 THEN {<<>>}
    ELSE LET shorter == Bodies(n - 1, chunks)
         IN  shorter \cup {b \o c : b \in shorter, c \in chunks}

\* Headers the decoder accepts: 12 bytes, 14 bytes with a header CRC of 0, 14
\* bytes with the CRC of the first 12.  Headers it rejects: a size byte of 13,
\* a data type other than '.FIT', 14 bytes with a wrong, nonzero header CRC.
HeaderKinds == {"h12", "h14zero", "h14crc"}
BadHeaderKinds == {"h13", "badmagic", "h14bad"}
TrailerKinds == {"running", "whole", "bad", "zero"}

\* The header of a file of the given kind.
FramedHeader(kind, data_size) ==
    Bind(FileHeaderBytes(CASE kind \in {"h12", "badmagic"} -> 12
                           [] kind = "h13" -> 13
                           [] OTHER -> 14, data_size), LAMBDA head12 :
    CASE kind = "h12" -> head12
      [] kind = "badmagic" -> SubSeq(head12, 1, 11) \o <<88>>
      [] kind = "h13" -> head12 \o <<0>>
      [] kind = "h14zero" -> head12 \o <<0, 0>>
      [] kind = "h14crc" -> head12 \o le16(crc_of(head12))
      [] OTHER -> head12 \o le16((crc_of(head12) % 65535) + 1))

\* A file: header, body, trailing CRC.  data_size is the body's length plus
\* delta.  The trailer is the CRC of the bytes since the header CRC
\* ("running"), of every byte before it ("whole"), zero, or none of them
\* ("bad").
Framed(kind, delta, trailer, body) ==
    Bind(FramedHeader(kind, Len(body) + delta), LAMBDA header :
    Bind(IF Len(header) = 14 THEN crc_of(body) ELSE crc_of(header \o body),
         LAMBDA running :
    header \o body \o
        (CASE trailer = "running" -> le16(running)
           [] trailer = "whole" -> le16(crc_of(header \o body))
           [] trailer = "zero" -> <<0, 0>>
           [] OTHER -> le16((running + 1) % 65536))))

\* The first n records of the framing family.
RECURSIVE FramingBody(_)
FramingBody(n) == IF n = 0 THEN <<>> ELSE FramingBody(n - 1) \o FramingRecord(n)

\* The records that come before a closing chunk.
PrefixChunks == {DefRecord0, DefUndocumented1, Data0Two}

\* Record streams in a 12-byte header with the right data_size and CRC: up
\* to MaxRecords - 1 well-formed records, up to MaxRecords core records, or
\* up to MaxRecords - 1 records and a closing chunk.
StreamInputs ==
    {Framed("h12", 0, "running", b) : b \in Bodies(MaxRecords - 1, WellFormedChunks)}
    \cup {Framed("h12", 0, "running", b) : b \in Bodies(MaxRecords, CoreChunks)}
    \cup {Framed("h12", 0, "running", b \o c) :
            b \in Bodies(MaxRecords - 1, PrefixChunks), c \in ClosingChunks}

\* Every header kind, data_size off by delta, every trailer kind.
FramedInputs ==
    {Framed(f[1], f[3], f[2], FramingBody(f[4])) :
        f \in {g \in HeaderKinds \X TrailerKinds \X {-1, 0, 1} \X (0..MaxFramedRecords) :
                  Len(FramingBody(g[4])) + g[3] >= 0}}

\* Files whose header the decoder rejects, with up to MaxFramedRecords records.
BadHeaderInputs ==
    {Framed(k, 0, "running", FramingBody(n)) :
        k \in BadHeaderKinds, n \in 0..MaxFramedRecords}

\* Every proper prefix of a file with a 14-byte header.
TruncatedInputs ==
    {SubSeq(Framed("h14crc", 0, "running", FramingBody(MaxFramedRecords)), 1, n) :
        n \in 0..(Len(FramingBody(MaxFramedRecords)) + 15)}

Inputs == StreamInputs \cup FramedInputs \cup BadHeaderInputs \cup TruncatedInputs

----------------------------------------------------------------------------
(* The state machine. *)

\* No call of ActivityDecoder.decode_activity is under way.
ActivityIdle ==
    /\ activity_messages = <<>>
    /\ activity_decoders = NoneValue
    /\ decoder_index = 0
    /\ activity_result = NoneValue
    /\ activity_calls = <<>>

\* No call of Profile is under way.
ProfileIdle ==
    /\ elements = <<>>
    /\ duplicates_result = None
    /\ component_value = [tag |-> "str", value |-> <<>>]
    /\ num_components = 1
    /\ component_result = <<>>

\* CodeWriter.__init__
WriterIdle ==
    /\ indent_count = 0
    /\ writer_content = <<>>
    /\ in_fragment = FALSE
    /\ writer_calls = 0
    /\ writer_before = <<0, <<>>>>

NoOptions == [error_on_undocumented_message |-> FALSE,
              error_on_undocumented_field |-> FALSE,
              error_on_invalid_enum_value |-> FALSE]

\* No call of decode_file or decode_fit_messages is under way.
DecoderIdle ==
    /\ raw_bytes = <<>>
    /\ bytes_read = 0
    /\ crc_current = 0
    /\ message_definitions = EmptyDict
    /\ most_recent_timestamp = None
    /\ error = Ok
    /\ file_header = NoHeader
    /\ initial_bytes_read = 0
    /\ records = <<>>
    /\ file_crc = None
    /\ record_starts = <<>>
    /\ used_definitions = <<>>
    /\ timestamps_before = <<>>
    /\ options = NoOptions
    /\ position = 1
    /\ definitions = EmptyDict
    /\ warned_undocumented_msg_num = <<>>
    /\ warned_manufacturer_specific_messages = <<>>
    /\ warned_undocumented_fields = <<>>
    /\ messages = <<>>
    /\ emitted = <<>>
    /\ resolved_definitions = <<>>
    /\ extracted = <<>>

Init ==
    /\ raw_bytes \in Inputs
    /\ bytes_read = 0
    /\ crc_current = 0
    /\ message_definitions = EmptyDict
    /\ most_recent_timestamp = None
    /\ pc = "decode_file"
    /\ error = Ok
    /\ file_header = NoHeader
    /\ initial_bytes_read = 0
    /\ records = <<>>
    /\ file_crc = None
    /\ record_starts = <<>>
    /\ used_definitions = <<>>
    /\ timestamps_before = <<>>
    /\ options = NoOptions
    /\ position = 1
    /\ definitions = EmptyDict
    /\ warned_undocumented_msg_num = <<>>
    /\ warned_manufacturer_specific_messages = <<>>
    /\ warned_undocumented_fields = <<>>
    /\ messages = <<>>
    /\ emitted = <<>>
    /\ resolved_definitions = <<>>
    /\ extracted = <<>>
    /\ ProfileIdle
    /\ ActivityIdle
    /\ WriterIdle

reader == [bytes_read |-> bytes_read, crc |-> crc_current]

\* decode_file: header = self.decode_file_header(), up to the first test of
\* the loop of decode_records.
DecodeFileHeader ==
    /\ pc = "decode_file"
    /\ \E r \in {decode_file_header(reader)} :
           /\ bytes_read' = r.rd.bytes_read
           /\ crc_current' = r.rd.crc
           /\ error' = r.err
           /\ file_header' = r.header
           /\ initial_bytes_read' = IF r.err = Ok THEN r.rd.bytes_read ELSE initial_bytes_read
           /\ pc' = IF r.err = Ok THEN "decode_records" ELSE "raised"
    /\ UNCHANGED <<raw_bytes, message_definitions, most_recent_timestamp, records,
                   file_crc, record_starts, used_definitions, timestamps_before,
                   resolver_vars>>
    /\ UNCHANGED library_vars

\* while self.reader.bytes_read - initial_bytes_read < data_size
decode_records_continues ==
    bytes_read - initial_bytes_read < file_header.data_size

\* One iteration of the loop of decode_records: records.append(self.decode_record())
DecodeRecord ==
    /\ pc = "decode_records"
    /\ decode_records_continues
    /\ \E r \in {decode_record(reader, message_definitions, most_recent_timestamp)} :
           /\ bytes_read' = r.rd.bytes_read
           /\ crc_current' = r.rd.crc
           /\ message_definitions' = r.md
           /\ most_recent_timestamp' = r.ts
           /\ error' = r.err
           /\ record_starts' = Append(record_starts, bytes_read)
           /\ timestamps_before' = Append(timestamps_before, most_recent_timestamp)
           /\ IF r.err = Ok
              THEN /\ records' = Append(records, [header |-> r.header, content |-> r.content])
                   /\ used_definitions' = Append(used_definitions, r.used)
                   /\ pc' = "decode_records"
              ELSE /\ UNCHANGED <<records, used_definitions>>
                   /\ pc' = "raised"
    /\ UNCHANGED <<raw_bytes, file_header, initial_bytes_read, file_crc, resolver_vars>>
    /\ UNCHANGED library_vars

\* decode_file after the loop: crc = self.decode_crc(False); return File(...)
DecodeFileCrc ==
    /\ pc = "decode_records"
    /\ ~decode_records_continues
    /\ \E r \in {decode_crc(reader, FALSE)} :
           /\ bytes_read' = r.rd.bytes_read
           /\ crc_current' = r.rd.crc
           /\ error' = r.err
           /\ file_crc' = r.crc
           /\ pc' = IF r.err = Ok THEN "file_decoded" ELSE "raised"
    /\ UNCHANGED <<raw_bytes, message_definitions, most_recent_timestamp, file_header,
                   initial_bytes_read, records, record_starts, used_definitions,
                   timestamps_before, resolver_vars>>
    /\ UNCHANGED library_vars

\* decode_fit_messages after decode_fit_file returned: the three toggles
\* (first read in the loop) and the five empty collections.
DecodeFitMessages ==
    /\ pc = "file_decoded"
    /\ \E m \in BOOLEAN, f \in BOOLEAN, e \in BOOLEAN :
           options' = [error_on_undocumented_message |-> m,
                       error_on_undocumented_field |-> f,
                       error_on_invalid_enum_value |-> e]
    /\ position' = 1
    /\ definitions' = EmptyDict
    /\ warned_undocumented_msg_num' = <<>>
    /\ warned_manufacturer_specific_messages' = <<>>
    /\ warned_undocumented_fields' = <<>>
    /\ messages' = <<>>
    /\ pc' = "resolve"
    /\ UNCHANGED <<reader_vars, stream_vars, error, emitted, resolved_definitions,
                   extracted>>
    /\ UNCHANGED library_vars

\* One iteration of `for record in file.records' on a MessageDefinition
ResolveDefinition ==
    /\ pc = "resolve"
    /\ position <= Len(records)
    /\ records[position].content.type = "MessageDefinition"
    /\ definitions' = definitions_store(definitions, records[position])
    /\ \E c \in {classify_definition(records[position].content.global_message_number,
                                     options, warned_manufacturer_specific_messages,
                                     warned_undocumented_msg_num)} :
           /\ error' = c.err
           /\ warned_manufacturer_specific_messages' = c.warned_mfg
           /\ warned_undocumented_msg_num' = c.warned_undoc
           /\ emitted' = emitted \o c.emitted
           /\ pc' = IF c.err = Ok THEN "resolve" ELSE "raised"
           /\ position' = IF c.err = Ok THEN position + 1 ELSE position
    /\ UNCHANGED <<reader_vars, stream_vars, options, warned_undocumented_fields,
                   messages, resolved_definitions, extracted>>
    /\ UNCHANGED library_vars

\* One iteration of `for record in file.records' on a MessageContent
ResolveContent ==
    /\ pc = "resolve"
    /\ position <= Len(records)
    /\ records[position].content.type = "MessageContent"
    /\ IF records[position].header.local_message_type \notin DOMAIN definitions
       THEN /\ error' = FITFileContentError("Local message type has not been previously defined")
            /\ pc' = "raised"
            /\ UNCHANGED <<position, warned_undocumented_fields, messages, emitted,
                           resolved_definitions, extracted>>
       ELSE \E b \in {build_message(records[position],
                                    definitions[records[position].header.local_message_type],
                                    options, warned_undocumented_fields)} :
                /\ error' = b.err
                /\ warned_undocumented_fields' = b.warned
                /\ emitted' = emitted \o b.emitted
                /\ IF b.err = Ok
                   THEN /\ messages' = Append(messages, b.message)
                        /\ resolved_definitions' =
                               Append(resolved_definitions,
                                      definitions[records[position].header.local_message_type])
                        /\ extracted' = Append(extracted, b.fields)
                        /\ position' = position + 1
                        /\ pc' = "resolve"
                   ELSE /\ UNCHANGED <<position, messages, resolved_definitions,
                                       extracted>>
                        /\ pc' = "raised"
    /\ UNCHANGED <<reader_vars, stream_vars, options, definitions,
                   warned_undocumented_msg_num, warned_manufacturer_specific_messages>>
    /\ UNCHANGED library_vars

\* return tuple(messages)
ReturnMessages ==
    /\ pc = "resolve"
    /\ position > Len(records)
    /\ pc' = "messages_returned"
    /\ UNCHANGED <<reader_vars, stream_vars, resolver_vars, error>>
    /\ UNCHANGED library_vars

Next ==
    \/ DecodeFileHeader
    \/ DecodeRecord
    \/ DecodeFileCrc
    \/ DecodeFitMessages
    \/ ResolveDefinition
    \/ ResolveContent
    \/ ReturnMessages

Spec == Init /\ [][Next]_vars

----------------------------------------------------------------------------
(* Profile.duplicates (src/FIT/profile.py), on its own.                     *)

\* The test of duplicates that selects an element the first time it is seen
C20_selected_when_first_seen(item, s) == item \notin s

\* element in s or s.add(element): true for an element the set s holds;
\* otherwise the element is added and the value is that of s.add, None.
seen_before(item, s) == item \in s

\* set(element for element in elements if element in s or s.add(element))
RECURSIVE duplicates_loop(_, _, _, _)
duplicates_loop(iterable, i, s, selected) ==
    IF i > Len(iterable) THEN selected
    ELSE IF seen_before(iterable[i], s)
    THEN duplicates_loop(iterable, i + 1, s, selected \cup {iterable[i]})
    ELSE duplicates_loop(iterable, i + 1, s \cup {iterable[i]}, selected)

duplicates(iterable) == duplicates_loop(iterable, 1, {}, {})

\* The arguments: the sequences of up to n elements.
ElementValues == {0, 1, 2}
RECURSIVE ElementSeqs(_)
ElementSeqs(n) ==
    IF n = 0 THEN {<<>>}
    ELSE LET shorter == ElementSeqs(n - 1)
         IN  shorter \cup {Append(e, v) : e \in shorter, v \in ElementValues}

InitDuplicates ==
    /\ elements \in ElementSeqs(MaxElements)
    /\ duplicates_result = None
    /\ component_value = [tag |-> "str", value |-> <<>>]
    /\ num_components = 1
    /\ component_result = <<>>
    /\ pc = "duplicates"
    /\ raw_bytes = <<>>
    /\ bytes_read = 0
    /\ crc_current = 0
    /\ message_definitions = EmptyDict
    /\ most_recent_timestamp = None
    /\ error = Ok
    /\ file_header = NoHeader
    /\ initial_bytes_read = 0
    /\ records = <<>>
    /\ file_crc = None
    /\ record_starts = <<>>
    /\ used_definitions = <<>>
    /\ timestamps_before = <<>>
    /\ options = NoOptions
    /\ position = 1
    /\ definitions = EmptyDict
    /\ warned_undocumented_msg_num = <<>>
    /\ warned_manufacturer_specific_messages = <<>>
    /\ warned_undocumented_fields = <<>>
    /\ messages = <<>>
    /\ emitted = <<>>
    /\ resolved_definitions = <<>>
    /\ extracted = <<>>
    /\ ActivityIdle
    /\ WriterIdle

\* Profile.duplicates(elements)
CallDuplicates ==
    /\ pc = "duplicates"
    /\ duplicates_result' = duplicates(elements)
    /\ pc' = "duplicates_returned"
    /\ UNCHANGED <<elements, component_value, num_components, component_result>>
    /\ UNCHANGED <<reader_vars, stream_vars, resolver_vars, error, activity_vars, writer_vars>>

NextDuplicates == CallDuplicates

SpecDuplicates == InitDuplicates /\ [][NextDuplicates]_vars

----------------------------------------------------------------------------
(* CRCCalculator on its own: a calculator in any state is fed the two bytes *)
(* of that state, as decode_crc feeds it the stored CRC; and the header of  *)
(* each input is decoded.                                                   *)

\* The states of CRCCalculator.current: UnsignedInt16.
CrcStates == 0..65535

InitCrc ==
    \/ /\ crc_current \in CrcStates
       /\ raw_bytes = le16(crc_current)
       /\ pc = "read_stored_crc"
       /\ bytes_read = 0
       /\ message_definitions = EmptyDict
       /\ most_recent_timestamp = None
       /\ error = Ok
       /\ file_header = NoHeader
       /\ initial_bytes_read = 0
       /\ records = <<>>
       /\ file_crc = None
       /\ record_starts = <<>>
       /\ used_definitions = <<>>
       /\ timestamps_before = <<>>
       /\ options = NoOptions
       /\ position = 1
       /\ definitions = EmptyDict
       /\ warned_undocumented_msg_num = <<>>
       /\ warned_manufacturer_specific_messages = <<>>
       /\ warned_undocumented_fields = <<>>
       /\ messages = <<>>
       /\ emitted = <<>>
       /\ resolved_definitions = <<>>
       /\ extracted = <<>>
       /\ ProfileIdle
       /\ ActivityIdle
       /\ WriterIdle
    \/ Init

\* expected_crc = self.reader.read_double_byte(), before the reset
ReadStoredCrc ==
    /\ pc = "read_stored_crc"
    /\ \E r \in {read_double_byte(reader)} :
           /\ bytes_read' = r.rd.bytes_read
           /\ crc_current' = r.rd.crc
           /\ error' = r.err
    /\ pc' = "stored_crc_read"
    /\ UNCHANGED <<raw_bytes, stream_vars, resolver_vars, library_vars>>

NextCrc ==
    \/ ReadStoredCrc
    \/ DecodeFileHeader

SpecCrc == InitCrc /\ [][NextCrc]_vars

----------------------------------------------------------------------------
(* Profile._parse_str_component_value, _parse_int_component_value and       *)
(* _parse_bool_component_value (src/FIT/profile.py).  A Python value is     *)
(* [tag, value]; a str is the sequence of its characters.                   *)

\* The tuples of up to n of the values.
RECURSIVE TuplesOf(_, _)
TuplesOf(values, n) ==
    IF n = 0 THEN {<<>>}
    ELSE LET shorter == TuplesOf(values, n - 1)
         IN  shorter \cup {Append(t, v) : t \in shorter, v \in values}

PyStr(chars) == [tag |-> "str", value |-> chars]
PyInt(v) == [tag |-> "int", value |-> v]
PyFloat(v) == [tag |-> "float", value |-> v]
PyBool(v) == [tag |-> "bool", value |-> v]
PyNone == [tag |-> "None", value |-> <<>>]

\* val.split(','): the pieces between the commas, empty ones included
RECURSIVE split(_, _, _)
split(chars, i, piece) ==
    IF i > Len(chars) THEN <<piece>>
    ELSE IF chars[i] = "," THEN <<piece>> \o split(chars, i + 1, <<>>)
    ELSE split(chars, i + 1, Append(piece, chars[i]))

\* split_val.strip()
RECURSIVE strip(_)
strip(chars) ==
    IF chars = <<>> THEN chars
    ELSE IF Head(chars) = " " THEN strip(Tail(chars))
    ELSE IF chars[Len(chars)] = " " THEN strip(SubSeq(chars, 1, Len(chars) - 1))
    ELSE chars

\* Profile._parse_tuple
parse_tuple(val) ==
    IF val = <<>> THEN <<>>
    ELSE LET pieces == split(val, 1, <<>>)
         IN  [i \in 1..Len(pieces) |-> strip(pieces[i])]

\* int(s) of a str of the model's characters: the number of its one digit,
\* ValueError for anything else
IsIntLiteral(chars) == Len(chars) = 1 /\ chars[1] \in {"0", "1"}
int(chars) == IF chars[1] = "1" THEN 1 ELSE 0

\* t * n for a tuple t
RECURSIVE Times(_, _)
Times(t, n) == IF n <= 0 THEN <<>> ELSE t \o Times(t, n - 1)

Returned(t) == [err |-> Ok, result |-> t]
ValueError == [err |-> Raise("ValueError", "invalid literal for int() with base 10"),
               result |-> <<>>]

\* val == ''
is_empty_str(val) == val.tag = "str" /\ val.value = <<>>

parse_str_component_value(val, n) ==
    IF is_empty_str(val) THEN Returned(Times(<<PyNone>>, n))
    ELSE LET tmp == parse_tuple(val.value)
         IN  IF Len(tmp) = 1 /\ Len(tmp) # n
             THEN Returned(Times(<<PyStr(tmp[1])>>, n))
             ELSE Returned([i \in 1..Len(tmp) |-> PyStr(tmp[i])])

parse_int_component_value(val, n) ==
    IF val.tag \in {"float", "int", "bool"} THEN Returned(Times(<<val>>, n))
    ELSE IF is_empty_str(val) THEN Returned(Times(<<PyNone>>, n))
    ELSE LET tmp == parse_tuple(val.value)
         IN  IF Len(tmp) = 1 /\ Len(tmp) # n
             THEN IF IsIntLiteral(tmp[1])
                  THEN Returned(Times(<<PyInt(int(tmp[1]))>>, n))
                  ELSE ValueError
             ELSE IF \A i \in 1..Len(tmp) : IsIntLiteral(tmp[i])
                  THEN Returned([i \in 1..Len(tmp) |-> PyInt(int(tmp[i]))])
                  ELSE ValueError

parse_bool_component_value(val, n) ==
    IF val.tag = "bool" THEN Returned(Times(<<val>>, n))
    ELSE IF val.tag \in {"int", "float"} THEN Returned(Times(<<PyBool(val.value = 1)>>, n))
    ELSE IF is_empty_str(val) THEN Returned(Times(<<PyNone>>, n))
    ELSE LET tmp == parse_tuple(val.value)
         IN  IF Len(tmp) = 1 /\ Len(tmp) # n
             THEN IF IsIntLiteral(tmp[1])
                  THEN Returned(Times(<<PyBool(int(tmp[1]) = 1)>>, n))
                  ELSE ValueError
             ELSE IF \A i \in 1..Len(tmp) : IsIntLiteral(tmp[i])
                  THEN Returned([i \in 1..Len(tmp) |-> PyBool(int(tmp[i]) = 1)])
                  ELSE ValueError

\* The arguments: a str of up to MaxChars characters, an int, a float or a
\* bool, and the number of components.
Characters == {"a", "1", "0", ",", " "}
ComponentValues ==
    {PyStr(chars) : chars \in TuplesOf(Characters, MaxChars)}
    \cup {PyInt(0), PyInt(1), PyInt(2), PyFloat(1), PyBool(TRUE), PyBool(FALSE)}

InitComponents ==
    /\ component_value \in ComponentValues
    /\ num_components \in 1..MaxComponents
    /\ component_result = <<>>
    /\ elements = <<>>
    /\ duplicates_result = None
    /\ pc = "parse_component_value"
    /\ DecoderIdle
    /\ ActivityIdle
    /\ WriterIdle

\* A call that ends as r.
ComponentCall(parser, r) ==
    /\ pc = "parse_component_value"
    /\ component_result' = r.result
    /\ error' = r.err
    /\ pc' = IF r.err = Ok THEN parser ELSE "raised"
    /\ UNCHANGED <<elements, duplicates_result, component_value, num_components>>
    /\ UNCHANGED <<reader_vars, stream_vars, resolver_vars, activity_vars, writer_vars>>

\* val: str
ParseStrComponentValue ==
    /\ component_value.tag = "str"
    /\ ComponentCall("_parse_str_component_value",
                     parse_str_component_value(component_value, num_components))

ParseIntComponentValue ==
    ComponentCall("_parse_int_component_value",
                  parse_int_component_value(component_value, num_components))

ParseBoolComponentValue ==
    ComponentCall("_parse_bool_component_value",
                  parse_bool_component_value(component_value, num_components))

NextComponents ==
    \/ ParseStrComponentValue
    \/ ParseIntComponentValue
    \/ ParseBoolComponentValue

SpecComponents == InitComponents /\ [][NextComponents]_vars

----------------------------------------------------------------------------
(* ActivityDecoder.decode_activity (src/FIT/activities.py), from the        *)
(* messages that Decoder.decode_fit_messages returned.                      *)

\* The decoder classes: the base class, the one decoder of the library, and
\* a caller's subclass that decodes whatever holds a Record message.
ActivityDecoder == "ActivityDecoder"
RunningDecoder == "RunningDecoder"
RecordDecoder == "RecordDecoder"

\* RunningDecoder.can_decode: the three flags, message by message
RECURSIVE running_can_decode(_, _, _, _, _)
running_can_decode(msgs, i, file_id_flag, sport_flag, record_flag) ==
    IF i > Len(msgs) THEN FALSE
    ELSE Bind(file_id_flag \/ (msgs[i].class_name = "FileId" /\ msgs[i].value = "Activity"),
              LAMBDA f :
         Bind(sport_flag \/ (msgs[i].class_name = "Sport" /\ msgs[i].value = "Running"),
              LAMBDA sp :
         Bind(record_flag \/ msgs[i].class_name = "Record", LAMBDA r :
         IF f /\ sp /\ r THEN TRUE
         ELSE running_can_decode(msgs, i + 1, f, sp, r))))

\* A can_decode that does not look at the messages
C21_can_decode_ignores_messages(decoder, msgs) == decoder # ActivityDecoder

\* if decoder.can_decode(messages): the base class answers None, which the
\* test takes as false.
can_decode(decoder, msgs) ==
    CASE decoder = RunningDecoder -> running_can_decode(msgs, 1, FALSE, FALSE, FALSE)
      [] decoder = RecordDecoder -> \E i \in 1..Len(msgs) : msgs[i].class_name = "Record"
      [] OTHER -> FALSE

\* decoder.decode(messages): the frame of the Record messages, or None from
\* the base class; RunningDecoder raises when it cannot decode.
decode(decoder, msgs) ==
    IF decoder = ActivityDecoder THEN [err |-> Ok, value |-> NoneValue]
    ELSE IF decoder = RunningDecoder /\ ~running_can_decode(msgs, 1, FALSE, FALSE, FALSE)
    THEN [err |-> Raise("FITFileUnrecognizedActivityError",
                        "RunningDecoder is unable to decode the input messages"),
          value |-> NoneValue]
    ELSE [err |-> Ok,
          value |-> [tag |-> decoder,
                     items |-> SelectSeq(msgs, LAMBDA m : m.class_name = "Record")]]

default_decoders == <<RunningDecoder>>

\* The arguments: the messages of a file, and None or a tuple of decoders.
ActivityMessages ==
    {[class_name |-> "FileId", value |-> "Activity"],
     [class_name |-> "FileId", value |-> "Course"],
     [class_name |-> "Sport", value |-> "Running"],
     [class_name |-> "Sport", value |-> "Cycling"],
     [class_name |-> "Record", value |-> "heart_rate"]}

InitActivity ==
    /\ activity_messages \in TuplesOf(ActivityMessages, MaxMessages)
    /\ activity_decoders \in {NoneValue} \cup
           {List(t) : t \in TuplesOf({ActivityDecoder, RunningDecoder, RecordDecoder}, MaxDecoders)}
    /\ decoder_index = 0
    /\ activity_result = NoneValue
    /\ activity_calls = <<>>
    /\ pc = "decode_activity"
    /\ DecoderIdle
    /\ ProfileIdle
    /\ WriterIdle

\* if activity_decoders is None: activity_decoders = default_decoders()
DefaultDecoders ==
    /\ pc = "decode_activity"
    /\ activity_decoders' = IF activity_decoders = NoneValue THEN List(default_decoders)
                            ELSE activity_decoders
    /\ decoder_index' = 1
    /\ pc' = "activity_decoders"
    /\ UNCHANGED <<activity_messages, activity_result, activity_calls, error>>
    /\ UNCHANGED <<reader_vars, stream_vars, resolver_vars, profile_vars, writer_vars>>

\* One turn of the for loop: can_decode, and decode when it answers true.
TryDecoder ==
    /\ pc = "activity_decoders"
    /\ decoder_index <= Len(activity_decoders.items)
    /\ LET decoder == activity_decoders.items[decoder_index]
           able == can_decode(decoder, activity_messages)
           decoded == decode(decoder, activity_messages)
       IN  IF able
           THEN /\ activity_calls' = activity_calls \o
                       <<[call |-> "can_decode", index |-> decoder_index],
                         [call |-> "decode", index |-> decoder_index]>>
                /\ activity_result' = decoded.value
                /\ error' = decoded.err
                /\ pc' = IF decoded.err = Ok THEN "activity_returned" ELSE "activity_raised"
                /\ UNCHANGED decoder_index
           ELSE /\ activity_calls' = Append(activity_calls,
                       [call |-> "can_decode", index |-> decoder_index])
                /\ decoder_index' = decoder_index + 1
                /\ UNCHANGED <<activity_result, error, pc>>
    /\ UNCHANGED <<activity_messages, activity_decoders>>
    /\ UNCHANGED <<reader_vars, stream_vars, resolver_vars, profile_vars, writer_vars>>

\* raise FITFileUnrecognizedActivityError()
RaiseUnrecognizedActivity ==
    /\ pc = "activity_decoders"
    /\ decoder_index > Len(activity_decoders.items)
    /\ error' = Raise("FITFileUnrecognizedActivityError", "")
    /\ pc' = "activity_raised"
    /\ UNCHANGED <<activity_vars, reader_vars, stream_vars, resolver_vars, profile_vars,
                   writer_vars>>

NextActivity ==
    \/ DefaultDecoders
    \/ TryDecoder
    \/ RaiseUnrecognizedActivity

SpecActivity == InitActivity /\ [][NextActivity]_vars

----------------------------------------------------------------------------
(* CodeWriter (src/FIT/codegen.py).  A writer w is [indent_count, content,  *)
(* in_fragment]; content is the sequence of its tabs, new lines and code    *)
(* strings.                                                                 *)

Tab == "\\t"
NewLineChar == "\\n"

\* s * n: n copies of s, none for n <= 0
RECURSIVE Repeat(_, _)
Repeat(s, n) == IF n <= 0 THEN <<>> ELSE <<s>> \o Repeat(s, n - 1)

CodeWriterError(msg) == Raise("CodeWriterError", msg)

indent(w) ==
    IF w.in_fragment
    THEN [err |-> CodeWriterError("Cannot indent while writing a line fragment"), w |-> w]
    ELSE [err |-> Ok, w |-> [w EXCEPT !.indent_count = w.indent_count + 1]]

unindent(w) ==
    IF w.in_fragment
    THEN [err |-> CodeWriterError("Cannot unindent while writing a line fragment"), w |-> w]
    ELSE [err |-> Ok, w |-> [w EXCEPT !.indent_count = w.indent_count - 1]]

new_line(w, lines) ==
    [w EXCEPT !.content = w.content \o Repeat(NewLineChar, lines), !.in_fragment = FALSE]

write_fragment(w, code) ==
    [w EXCEPT !.content = IF w.in_fragment THEN w.content \o <<code>>
                          ELSE w.content \o Repeat(Tab, w.indent_count) \o <<code>>,
              !.in_fragment = TRUE]

write(w, code) == new_line(write_fragment(w, code), 1)

\* The arguments: code strings, and the lines of new_line.
CodeStrings == {"pass", "x = 1"}
LineCounts == {1, 2}

writer ==
    [indent_count |-> indent_count, content |-> writer_content, in_fragment |-> in_fragment]

InitWriter ==
    /\ WriterIdle
    /\ pc = "code_writer"
    /\ DecoderIdle
    /\ ActivityIdle
    /\ ProfileIdle

\* A call that leaves the writer as w with the outcome err.
WriterCall(err, w) ==
    /\ pc = "code_writer"
    /\ writer_calls < MaxCalls
    /\ writer_calls' = writer_calls + 1
    /\ writer_before' = <<indent_count, writer_content>>
    /\ error' = err
    /\ indent_count' = w.indent_count
    /\ writer_content' = w.content
    /\ in_fragment' = w.in_fragment
    /\ UNCHANGED <<pc, reader_vars, stream_vars, resolver_vars, profile_vars, activity_vars>>

Indent == \E r \in {indent(writer)} : WriterCall(r.err, r.w)

Unindent == \E r \in {unindent(writer)} : WriterCall(r.err, r.w)

Write == \E code \in CodeStrings : WriterCall(Ok, write(writer, code))

NewLine == \E lines \in LineCounts : WriterCall(Ok, new_line(writer, lines))

WriteFragment == \E code \in CodeStrings : WriterCall(Ok, write_fragment(writer, code))

NextWriter ==
    \/ Indent
    \/ Unindent
    \/ Write
    \/ NewLine
    \/ WriteFragment

SpecWriter == InitWriter /\ [][NextWriter]_vars

----------------------------------------------------------------------------
(* Properties of decode_file. *)

\* decode_file returned a File: crc is assigned by its last statement.
decode_file_returned == file_crc # None

\* decode_file raised FITFileContentError.
decode_file_rejected ==
    pc = "raised" /\ file_crc = None /\ error.kind = "FITFileContentError"

\* The two bytes decode_crc(False) read, little-endian.
stored_trailing_crc == little_endian(SubSeq(raw_bytes, bytes_read - 1, bytes_read))

\* C1: decode_file succeeds only if the two stored trailing CRC bytes equal
\* the FIT CRC of every byte from the first byte of the file header up to the
\* trailing CRC bytes, for a 12-byte header and for a 14-byte header, a zero
\* header CRC included.
C1_TrailingCrcCoversEveryByte ==
    decode_file_returned =>
        stored_trailing_crc = crc_of(SubSeq(raw_bytes, 1, bytes_read - 2))

\* C2: whenever decode_file returns, bytes_read is header_size + data_size + 2.
C2_ConsumesExactlyTheDeclaredSize ==
    decode_file_returned =>
        bytes_read = file_header.header_size + file_header.data_size + 2

IsDefinition(i) == records[i].content.type = "MessageDefinition"
IsContent(i) == records[i].content.type = "MessageContent"
local_type_of(i) == records[i].header.local_message_type

\* The records before record i that define local type L.
DefinersBefore(i, L) ==
    {j \in 1..(i - 1) : IsDefinition(j) /\ local_type_of(j) = L}

Latest(S) == CHOOSE j \in S : \A k \in S : k <= j

\* The content records, and the k-th of them.
ContentRecords == {i \in 1..Len(records) : IsContent(i)}
NthContentRecord(k) ==
    CHOOSE i \in ContentRecords : Cardinality({j \in ContentRecords : j <= i}) = k

\* C3: a data record of local type L is decoded against the definition of the
\* most recent preceding definition record of local type L, in decode_file
\* and in decode_fit_messages; the table binds each local type to its latest
\* definition record, so rebinding one local type leaves the others alone.
C3_DataUsesLatestDefinition ==
    /\ \A i \in ContentRecords :
          /\ DefinersBefore(i, local_type_of(i)) # {}
          /\ used_definitions[i] =
                 records[Latest(DefinersBefore(i, local_type_of(i)))].content
    /\ \A L \in 0..15 :
          IF DefinersBefore(Len(records) + 1, L) = {}
          THEN L \notin DOMAIN message_definitions
          ELSE /\ L \in DOMAIN message_definitions
               /\ message_definitions[L] =
                      records[Latest(DefinersBefore(Len(records) + 1, L))].content
    /\ \A k \in 1..Len(messages) :
          resolved_definitions[k] =
              records[Latest(DefinersBefore(NthContentRecord(k),
                                            local_type_of(NthContentRecord(k))))].content

\* A data record decoded after its local type was bound twice, to different
\* definitions, while another local type stayed bound.
C3_Witness_Rebound ==
    \E i \in ContentRecords :
        \E j \in DefinersBefore(i, local_type_of(i)) :
            /\ j # Latest(DefinersBefore(i, local_type_of(i)))
            /\ records[j].content # used_definitions[i]

\* The bytes of the record that starts after offset s, where it has them.
HasByte(n) == n <= Len(raw_bytes)
ByteAt(n) == raw_bytes[n]
IsNormalHeaderAt(s) ==
    HasByte(s + 1) /\ ~bit_get(ByteAt(s + 1), IS_COMPRESSED_TIMESTAMP_HEADER_POSITION)
HeaderReservedBitAt(s) == IsNormalHeaderAt(s) /\ bit_get(ByteAt(s + 1), RESERVED_BIT_POSITION)
IsDefinitionAt(s) ==
    /\ IsNormalHeaderAt(s)
    /\ ~HeaderReservedBitAt(s)
    /\ bit_get(ByteAt(s + 1), IS_DEFINITION_MESSAGE_POSITION)
ReservedByteNonzeroAt(s) == IsDefinitionAt(s) /\ HasByte(s + 2) /\ ByteAt(s + 2) # 0
\* The field definitions of the record are reached: reserved byte 0 and an
\* Architecture value.
FieldsReachedAt(s) ==
    /\ IsDefinitionAt(s)
    /\ HasByte(s + 6)
    /\ ByteAt(s + 2) = 0
    /\ ByteAt(s + 3) \in {0, 1}
TypeByteHasReservedBits(n) == HasByte(n) /\ (bit_get(ByteAt(n), 5) \/ bit_get(ByteAt(n), 6))
FieldTypeReservedAt(s) ==
    /\ FieldsReachedAt(s)
    /\ \E k \in 0..(ByteAt(s + 6) - 1) : TypeByteHasReservedBits(s + 9 + 3 * k)
\* The developer field definitions follow the fields and their count byte.
DeveloperFieldTypeReservedAt(s) ==
    /\ FieldsReachedAt(s)
    /\ bit_get(ByteAt(s + 1), HAS_DEVELOPER_DATA_POSITION)
    /\ HasByte(s + 7 + 3 * ByteAt(s + 6))
    /\ \E k \in 0..(ByteAt(s + 7 + 3 * ByteAt(s + 6)) - 1) :
           TypeByteHasReservedBits(s + 10 + 3 * ByteAt(s + 6) + 3 * k)

ReservedBitsSetAt(s) ==
    \/ HeaderReservedBitAt(s)
    \/ ReservedByteNonzeroAt(s)
    \/ FieldTypeReservedAt(s)
    \/ DeveloperFieldTypeReservedAt(s)

\* C4: decode_file rejects with FITFileContentError every input in which a
\* decoded normal record header has bit 4 set, a decoded field definition's
\* type byte has bit 5 or bit 6 set, or a decoded message definition's
\* reserved byte is nonzero.
C4_ReservedBitsRejected ==
    \A n \in 1..Len(record_starts) :
        ReservedBitsSetAt(record_starts[n]) => decode_file_rejected

\* A record whose second field definition has a reserved type bit, decoded
\* after another record, and rejected.
C4_Witness_TypeBitsRejected ==
    /\ Len(record_starts) > 1
    /\ FieldTypeReservedAt(record_starts[Len(record_starts)])
    /\ ~TypeByteHasReservedBits(record_starts[Len(record_starts)] + 9)
    /\ decode_file_rejected

\* A field definition that gives field 253 or 250 another base type than
\* uint32, or field 254 another than uint16.
MistypedSpecialField(fd) ==
    \/ fd.number = TIMESTAMP_FIELD_NUMBER /\ fd.base_type # UnsignedInt32_base_type_number
    \/ fd.number = PART_INDEX_FIELD_NUMBER /\ fd.base_type # UnsignedInt32_base_type_number
    \/ fd.number = MESSAGE_INDEX_FIELD_NUMBER /\ fd.base_type # UnsignedInt16_base_type_number

DeclaresMistypedSpecialField(definition) ==
    \E k \in 1..Len(definition.field_definitions) :
        MistypedSpecialField(definition.field_definitions[k])

\* C5: an input with a message definition that declares field 253 or 250
\* with a base type other than uint32, or field 254 with one other than
\* uint16, is rejected with FITFileContentError, whether or not a data record
\* uses the definition: no such definition is decoded into a record, and a
\* call that such a definition stops raises FITFileContentError.
C5_MistypedSpecialFieldRejected ==
    /\ \A i \in 1..Len(records) :
          IsDefinition(i) => ~DeclaresMistypedSpecialField(records[i].content)
    /\ \A L \in DOMAIN message_definitions :
          DeclaresMistypedSpecialField(message_definitions[L]) /\ pc = "raised"
              => error.kind = "FITFileContentError"

----------------------------------------------------------------------------
(* Properties of decode_fit_messages. *)

\* The loop of decode_fit_messages has begun.
in_resolver ==
    pc \in {"resolve", "messages_returned"} \/ (pc = "raised" /\ file_crc # None)

\* The definition records the loop has gone through.
ResolvedDefinitionRecords == {j \in 1..(position - 1) : IsDefinition(j)}

global_number_of(j) == records[j].content.global_message_number

Documented(k) ==
    messages[k].class_name \notin {ManufacturerSpecificMessage, UndocumentedMessage}

FieldNumbers(definition) ==
    {definition.field_definitions[i].number : i \in 1..Len(definition.field_definitions)}

UndocumentedNumbers(k) ==
    {messages[k].undocumented_fields[i].definition.number :
        i \in 1..Len(messages[k].undocumented_fields)}

ExpectedNumbers(k) == SeqToSet(expected_field_numbers(messages[k].class_name))

\* C6: for every data record of a documented kind K, the keys of the map of
\* extract_fields are K.expected_field_numbers(), an expected number absent
\* from the definition maps to None, and the expected numbers present in the
\* definition together with the numbers of the undocumented fields are the
\* field numbers of the definition.
C6_FieldsPartitionTheDefinition ==
    \A k \in 1..Len(messages) :
        Documented(k) =>
            /\ DOMAIN extracted[k] = ExpectedNumbers(k)
            /\ \A n \in ExpectedNumbers(k) \ FieldNumbers(resolved_definitions[k]) :
                   extracted[k][n] = NoneValue
            /\ (ExpectedNumbers(k) \cap FieldNumbers(resolved_definitions[k]))
                   \cup UndocumentedNumbers(k)
               = FieldNumbers(resolved_definitions[k])

\* A message of a documented kind whose definition has an expected field,
\* lacks another, and has a field the kind does not expect.
C6_Witness_AllThreeParts ==
    \E k \in 1..Len(messages) :
        /\ Documented(k)
        /\ ExpectedNumbers(k) \cap FieldNumbers(resolved_definitions[k]) # {}
        /\ ExpectedNumbers(k) \ FieldNumbers(resolved_definitions[k]) # {}
        /\ UndocumentedNumbers(k) # {}

\* One UndocumentedMessageField per field definition that the kind of the
\* k-th message does not expect, with the value decoded for that definition.
UndocumentedPerFieldDefinition(k) ==
    LET field_definitions == resolved_definitions[k].field_definitions
        each == [i \in 1..Len(field_definitions) |->
                    [definition |-> field_definitions[i],
                     value |-> records[NthContentRecord(k)].content.fields[i].value]]
    IN  SelectSeq(each, LAMBDA f : f.definition.number \notin ExpectedNumbers(k))

\* C22: every field definition of the bound definition whose number is not
\* expected yields one UndocumentedMessageField with that definition and that
\* field's value, in definition order, also when a number is listed twice.
C22_UndocumentedFieldPerFieldDefinition ==
    \A k \in 1..Len(messages) :
        messages[k].undocumented_fields = UndocumentedPerFieldDefinition(k)

\* The same for the definitions that list no field number twice.
C22_UndocumentedFieldPerDistinctNumber ==
    \A k \in 1..Len(messages) :
        Cardinality(FieldNumbers(resolved_definitions[k]))
            = Len(resolved_definitions[k].field_definitions)
        => messages[k].undocumented_fields = UndocumentedPerFieldDefinition(k)

\* The field numbers the message kind of global message number g expects:
\* those of the profile's class, none for a manufacturer-specific or an
\* undocumented message.
ExpectedOf(g) ==
    IF g \in ProfileMesgNums
    THEN {ProfileFields(MesgNum_name(g))[i].number :
             i \in 1..Len(ProfileFields(MesgNum_name(g)))}
    ELSE {}

HasUndocumentedField(definition) ==
    FieldNumbers(definition) \ ExpectedOf(definition.global_message_number) # {}

\* decode_fit_messages raised in a data record whose local type is defined.
RaisedInDataRecord ==
    /\ pc = "raised"
    /\ file_crc # None
    /\ position <= Len(records)
    /\ IsContent(position)
    /\ local_type_of(position) \in DOMAIN definitions

UndocumentedFieldError == FITFileContentError("message has undocumented field number")

\* C25: with error_on_undocumented_field the call fails with
\* FITFileContentError at the first data record that has an undocumented
\* field, every defined field of a manufacturer-specific or undocumented
\* message being one; without it no undocumented field makes the call fail
\* and every data record gone through has its message in the output.
C25_UndocumentedFieldToggle ==
    in_resolver /\ pc # "file_decoded" =>
        /\ options.error_on_undocumented_field =>
               /\ \A k \in 1..Len(messages) :
                      /\ ~HasUndocumentedField(resolved_definitions[k])
                      /\ messages[k].undocumented_fields = <<>>
               /\ RaisedInDataRecord
                      /\ HasUndocumentedField(definitions[local_type_of(position)])
                  => error = UndocumentedFieldError
        /\ error = UndocumentedFieldError =>
               /\ options.error_on_undocumented_field
               /\ RaisedInDataRecord
               /\ HasUndocumentedField(definitions[local_type_of(position)])
        /\ ~options.error_on_undocumented_field =>
               /\ ~(RaisedInDataRecord
                      /\ HasUndocumentedField(definitions[local_type_of(position)]))
               /\ Len(messages) = Cardinality({j \in ContentRecords : j < position})

\* With error_on_undocumented_field the call failed in a data record of a
\* manufacturer-specific message.
C25_Witness_ManufacturerSpecificRaises ==
    /\ options.error_on_undocumented_field
    /\ RaisedInDataRecord
    /\ definitions[local_type_of(position)].global_message_number
           \in MfgRangeMin..MfgRangeMax
    /\ error = UndocumentedFieldError
    /\ messages = <<>>

\* C30: in decode_fit_messages the definition looked up for a data record is
\* the one decode_file decoded the record with, so the record has one value
\* per field definition and the failure 'has not been previously defined'
\* does not occur; the messages are those of the data records gone through,
\* one each and in record order.
C30_ResolverUsesTheStreamDefinitions ==
    in_resolver /\ pc # "file_decoded" =>
        /\ error # FITFileContentError("Local message type has not been previously defined")
        /\ Len(messages) = Cardinality({j \in ContentRecords : j < position})
        /\ pc = "messages_returned" => Len(messages) = Cardinality(ContentRecords)
        /\ \A k \in 1..Len(messages) :
               LET j == NthContentRecord(k)
               IN  /\ resolved_definitions[k] = used_definitions[j]
                   /\ Len(records[j].content.fields)
                          = Len(resolved_definitions[k].field_definitions)
                   /\ \A i \in 1..Len(messages[k].undocumented_fields) :
                          \E f \in 1..Len(records[j].content.fields) :
                              /\ messages[k].undocumented_fields[i].definition
                                     = used_definitions[j].field_definitions[f]
                              /\ messages[k].undocumented_fields[i].value
                                     = records[j].content.fields[f].value

\* Two messages were returned, the second one from a data record that
\* follows a second definition of its local type.
C30_Witness_MessageAfterRebinding ==
    /\ pc = "messages_returned"
    /\ Len(messages) = 2
    /\ resolved_definitions[1] # resolved_definitions[2]
    /\ local_type_of(NthContentRecord(1)) = local_type_of(NthContentRecord(2))

\* C7: an enum-typed documented field whose raw value is no member of the
\* enum is delivered as the enum's Invalid member when
\* error_on_invalid_enum_value is False, and makes the call fail when it is
\* True: every message built holds cast_value of the raw value, which did
\* not raise.
C7_EnumFieldsAreCast ==
    \A k \in 1..Len(messages) :
        \A i \in 1..Len(ProfileFields(messages[k].class_name)) :
            ProfileFields(messages[k].class_name)[i].type \in EnumTypes =>
                /\ cast_value(extracted[k][ProfileFields(messages[k].class_name)[i].number],
                              ProfileFields(messages[k].class_name)[i].type,
                              options.error_on_invalid_enum_value).err = Ok
                /\ messages[k].fields[i].value =
                       cast_value(extracted[k][ProfileFields(messages[k].class_name)[i].number],
                                  ProfileFields(messages[k].class_name)[i].type,
                                  options.error_on_invalid_enum_value).value

\* What the definition branch warns of for record j.
DefinitionWarning(j) ==
    IF global_number_of(j) \in MesgNum_value2member_map THEN {}
    ELSE IF is_manufacturer_specific(global_number_of(j))
    THEN {ManufacturerSpecificText(global_number_of(j))}
    ELSE {NotDocumentedText(global_number_of(j))}

\* What the reporting loop warns of for message k.
FieldWarnings(k) ==
    {UndocumentedFieldText(messages[k].class_name, n) : n \in UndocumentedNumbers(k)}

Occurrences(text) ==
    Cardinality({j \in ResolvedDefinitionRecords : text \in DefinitionWarning(j)})
    + Cardinality({k \in 1..Len(messages) : text \in FieldWarnings(k)})

\* C8: within one call no warning text is emitted more than once; a text
\* whose condition occurred, once or repeatedly, is emitted exactly once.
C8_WarningsAreDeduplicated ==
    /\ Cardinality(SeqToSet(emitted)) = Len(emitted)
    /\ \A j \in ResolvedDefinitionRecords : DefinitionWarning(j) \subseteq SeqToSet(emitted)
    /\ \A k \in 1..Len(messages) : FieldWarnings(k) \subseteq SeqToSet(emitted)
    /\ \A n \in 1..Len(emitted) : Occurrences(emitted[n]) >= 1

\* A warning text whose condition occurred twice.
C8_Witness_RepeatedCondition ==
    \E n \in 1..Len(emitted) : Occurrences(emitted[n]) >= 2

\* A definition record whose global number is no MesgNum and outside the
\* manufacturer-specific range.
IsUndocumentedNumber(g) ==
    g \notin MesgNum_value2member_map /\ ~is_manufacturer_specific(g)
UndocumentedDefinitionRecords ==
    {j \in 1..Len(records) : IsDefinition(j) /\ IsUndocumentedNumber(global_number_of(j))}

\* C9: at a definition record with an undocumented global number,
\* error_on_undocumented_message=True fails the call with FITFileContentError
\* there, before any later record; False warns `not documented', goes on, and
\* every later data record bound to the definition is an UndocumentedMessage.
C9_UndocumentedMessageToggle ==
    in_resolver =>
        IF options.error_on_undocumented_message
        THEN \A j \in UndocumentedDefinitionRecords :
                /\ position <= j
                /\ pc # "messages_returned"
                /\ (position = j /\ pc # "resolve") =>
                       (pc = "raised" /\ error.kind = "FITFileContentError")
        ELSE /\ \A j \in UndocumentedDefinitionRecords :
                    /\ j < position => NotDocumentedText(global_number_of(j)) \in SeqToSet(emitted)
                    /\ position = j => pc # "raised"
             /\ \A k \in 1..Len(messages) :
                    IsUndocumentedNumber(resolved_definitions[k].global_message_number)
                        => messages[k].class_name = UndocumentedMessage

\* The warning was given and a later data record became an UndocumentedMessage.
C9_Witness_WarnedAndUndocumented ==
    /\ ~options.error_on_undocumented_message
    /\ \E k \in 1..Len(messages) :
           /\ IsUndocumentedNumber(resolved_definitions[k].global_message_number)
           /\ messages[k].class_name = UndocumentedMessage
           /\ NotDocumentedText(resolved_definitions[k].global_message_number)
                  \in SeqToSet(emitted)

\* C10: definition records and data records classify a global number g by
\* the same rules: g in [MfgRangeMin, MfgRangeMax], end points included, gets
\* the manufacturer-specific warning and a ManufacturerSpecificMessage; a
\* known MesgNum outside the range gets neither; any other g is undocumented
\* in both branches.
C10_BranchesClassifyAlike ==
    in_resolver =>
        /\ \A j \in ResolvedDefinitionRecords :
              /\ ManufacturerSpecificText(global_number_of(j)) \in SeqToSet(emitted)
                     <=> is_manufacturer_specific(global_number_of(j))
              /\ NotDocumentedText(global_number_of(j)) \in SeqToSet(emitted)
                     <=> IsUndocumentedNumber(global_number_of(j))
        /\ \A k \in 1..Len(messages) :
              /\ messages[k].class_name = ManufacturerSpecificMessage
                     <=> is_manufacturer_specific(resolved_definitions[k].global_message_number)
              /\ messages[k].class_name = UndocumentedMessage
                     <=> IsUndocumentedNumber(resolved_definitions[k].global_message_number)

\* C11: the typed message of every data record carries one
\* DeveloperMessageField(definition, value) per developer field of the
\* record, in the order of the definition's developer field definitions.
C11_DeveloperFieldsAreCarried ==
    \A k \in 1..Len(messages) :
        /\ Len(messages[k].developer_fields)
               = Len(resolved_definitions[k].developer_field_definitions)
        /\ \A i \in 1..Len(messages[k].developer_fields) :
               /\ messages[k].developer_fields[i].definition
                      = resolved_definitions[k].developer_field_definitions[i]
               /\ messages[k].developer_fields[i].value
                      = records[NthContentRecord(k)].content.developer_fields[i].value

\* The first 12 bytes are there and the header size or the data type is wrong.
HeaderIsInvalid ==
    /\ Len(raw_bytes) >= 12
    /\ (raw_bytes[1] \notin {12, 14} \/ SubSeq(raw_bytes, 9, 12) # FIT_DATA_TYPE)

\* C12: decode_file_header accepts a header only if its first byte is 12 or
\* 14 and bytes 8..11 are '.FIT'; any other header size or data type makes
\* decode_file fail with FITFileContentError before any record is decoded.
C12_HeaderSizeAndTypeChecked ==
    /\ file_header # NoHeader =>
           /\ raw_bytes[1] \in {12, 14}
           /\ SubSeq(raw_bytes, 9, 12) = FIT_DATA_TYPE
    /\ HeaderIsInvalid /\ pc # "decode_file" =>
           /\ decode_file_rejected
           /\ bytes_read = 12
           /\ records = <<>>
           /\ record_starts = <<>>

\* A file with records behind a header of size 13, or behind a header
\* whose data type is not '.FIT', after decode_file failed.
C12_Witness_BadHeaderRejected ==
    /\ HeaderIsInvalid
    /\ decode_file_rejected
    /\ Len(raw_bytes) > 20
    /\ raw_bytes[1] = 13 \/ raw_bytes[12] # 84

\* The first 12 bytes are a header of size 14 with the data type '.FIT', and
\* the two bytes of the header CRC follow.
HasHeaderCrc ==
    /\ Len(raw_bytes) >= 14
    /\ raw_bytes[1] = 14
    /\ SubSeq(raw_bytes, 9, 12) = FIT_DATA_TYPE
stored_header_crc == little_endian(SubSeq(raw_bytes, 13, 14))
header_accepted == file_header # NoHeader

\* The CRC decode_crc(False) compares with: that of the bytes read since the
\* header CRC, or since the start of a file that has none.
computed_trailing_crc ==
    crc_of(SubSeq(raw_bytes, IF file_header.header_size = 14 THEN 15 ELSE 1,
                  bytes_read - 2))

\* C13: the zero-CRC concession applies to the header CRC only.  A stored
\* header CRC of 0 is accepted without comparison and a nonzero one must be
\* the CRC of the first 12 bytes; the trailing CRC is always compared, so a
\* stored trailing CRC of 0 is accepted only when the computed CRC is 0.
C13_ZeroCrcConcessionIsHeaderOnly ==
    /\ HasHeaderCrc /\ pc # "decode_file" =>
           (header_accepted <=>
               \/ stored_header_crc = 0
               \/ stored_header_crc = crc_of(SubSeq(raw_bytes, 1, 12)))
    /\ decode_file_returned => stored_trailing_crc = computed_trailing_crc

\* A file whose header CRC of 0 was accepted though the CRC of its first 12
\* bytes is not 0, and whose trailing CRC of 0 was rejected.
C13_Witness_ZeroHeaderCrcZeroTrailer ==
    /\ HasHeaderCrc
    /\ header_accepted
    /\ stored_header_crc = 0
    /\ crc_of(SubSeq(raw_bytes, 1, 12)) # 0
    /\ decode_file_rejected
    /\ error.msg = "Invalid CRC"
    /\ stored_trailing_crc = 0

\* How many bytes were consumed when crc_calculator.reset() last ran: all of
\* them once decode_crc has read a trailing or a mismatching CRC, the 14 of
\* a header with a CRC, none before that.
bytes_read_at_reset ==
    IF file_crc # None \/ (pc = "raised" /\ error = FITFileContentError("Invalid CRC"))
    THEN bytes_read
    ELSE IF HasHeaderCrc /\ bytes_read >= 14 THEN 14
    ELSE 0

\* C24: crc_calculator.current is the FIT CRC, from 0, of exactly the bytes
\* consumed since the last reset, in order, and stays within 0..0xFFFF.
C24_CrcTracksConsumedBytes ==
    /\ crc_current \in 0..65535
    /\ bytes_read \in 0..Len(raw_bytes)
    /\ crc_current = crc_of(SubSeq(raw_bytes, bytes_read_at_reset + 1, bytes_read))

\* Records were consumed after the reset that follows a header CRC, and the
\* running CRC is not that of the whole file so far.
C24_Witness_RecordsAfterHeaderReset ==
    /\ bytes_read_at_reset = 14
    /\ bytes_read > 20
    /\ Len(records) >= 2
    /\ crc_current # 0
    /\ crc_current # crc_of(SubSeq(raw_bytes, 1, bytes_read))

\* Every decode_record call that returned consumed at least one byte, and no
\* call consumed bytes the input does not have: the loop of decode_records
\* runs at most Len(raw_bytes) times.
C26_EachRecordConsumesOrRaises ==
    /\ bytes_read <= Len(raw_bytes)
    /\ Len(records) \in {Len(record_starts), Len(record_starts) - 1}
    /\ Len(records) < Len(record_starts) => pc = "raised"
    /\ \A n \in 1..Len(records) :
           record_starts[n] <
               (IF n < Len(record_starts) THEN record_starts[n + 1] ELSE bytes_read)

\* C26: decode_file terminates on every input: each iteration of the record
\* loop consumes at least one byte or raises, and the call ends in a returned
\* File, a content-format failure or an unexpected-end-of-file failure.
C26_DecodeFileEndsInFileOrContentFailure ==
    /\ C26_EachRecordConsumesOrRaises
    /\ pc = "raised" /\ file_crc = None =>
           \/ error = FITFileContentError("Unexpected end of file encountered")
           \/ error.kind \in {"FITFileContentError", "FITValueDecodingError"}

\* C14: for every input decode_file returns a File or fails with
\* FITFileContentError (or FITValueDecodingError for a field size that is no
\* multiple of its type width); an architecture byte outside {0, 1} and a
\* base-type number outside the catalogue surface as FITFileContentError, and
\* no other kind of failure reaches the caller.
C14_OnlyContentErrorsReachTheCaller ==
    pc = "raised" /\ file_crc = None =>
        error.kind \in {"FITFileContentError", "FITValueDecodingError"}

\* C15: from_bytes fails with FITValueDecodingError for every input whose
\* length is not a positive multiple of the type width, the empty input
\* included; for one width it returns a scalar and for k > 1 widths a
\* sequence of k scalars.  Every field that decode_field decoded with it has
\* such a size and such a value.
C15_FromBytesLengthChecked ==
    \A i \in ContentRecords :
        \A j \in 1..Len(records[i].content.fields) :
            LET field_definition == used_definitions[i].field_definitions[j]
                width == underlying_bytes(field_definition.base_type)
                value == records[i].content.fields[j].value
            IN  field_definition.base_type # String_base_type_number =>
                    /\ field_definition.size > 0
                    /\ field_definition.size % width = 0
                    /\ field_definition.size = width => value.tag = "scalar"
                    /\ field_definition.size > width =>
                           /\ value.tag = "list"
                           /\ Len(value.items) = field_definition.size \div width

\* C16: the two bytes b0, b1 of global_message_number are read in the
\* architecture the same definition declares: b0 + 256 * b1 when it is 0
\* (little-endian), 256 * b0 + b1 when it is 1 (big-endian).
C16_GlobalNumberFollowsArchitecture ==
    \A i \in 1..Len(records) :
        IsDefinition(i) =>
            records[i].content.global_message_number =
                IF records[i].content.architecture = 0
                THEN ByteAt(record_starts[i] + 4) + 256 * ByteAt(record_starts[i] + 5)
                ELSE 256 * ByteAt(record_starts[i] + 4) + ByteAt(record_starts[i] + 5)

\* The record decode_record was last called for: where it starts, whether it
\* is a data record whose local type is bound, and its definition.
last_start == record_starts[Len(record_starts)]
LocalTypeAt(s) ==
    IF IsNormalHeaderAt(s) THEN ByteAt(s + 1) % 16 ELSE ShiftRight(ByteAt(s + 1), 5) % 4
IsDataAt(s) == HasByte(s + 1) /\ ~IsDefinitionAt(s) /\ ~HeaderReservedBitAt(s)
LastIsBoundData ==
    /\ record_starts # <<>>
    /\ IsDataAt(last_start)
    /\ LocalTypeAt(last_start) \in DOMAIN message_definitions
last_definition == message_definitions[LocalTypeAt(last_start)]

\* The offset after the last record's header byte at which its field j ends.
RECURSIVE FieldEnd(_, _)
FieldEnd(field_definitions, j) ==
    IF j = 0 THEN 0 ELSE FieldEnd(field_definitions, j - 1) + field_definitions[j].size

\* The fields 253 of the last record whose bytes decode_field has read.
TimestampFieldsRead ==
    {j \in 1..Len(last_definition.field_definitions) :
        /\ last_definition.field_definitions[j].number = TIMESTAMP_FIELD_NUMBER
        /\ bytes_read >= last_start + 1 + FieldEnd(last_definition.field_definitions, j)}

\* C17: most_recent_timestamp is None until the first field 253 is decoded;
\* once a data record's uint32 field 253 is decoded it is that field's value,
\* the latest such field's when there are several.
C17_TimestampFollowsField253 ==
    /\ most_recent_timestamp # None =>
           \E i \in 1..Len(records) :
               /\ IsDefinition(i)
               /\ TIMESTAMP_FIELD_NUMBER \in
                      FieldNumbers(records[i].content)
                          \cup {records[i].content.developer_field_definitions[j].number :
                                  j \in 1..Len(records[i].content.developer_field_definitions)}
    /\ LastIsBoundData /\ TimestampFieldsRead # {} =>
           LET j == Latest(TimestampFieldsRead)
               field_definition == last_definition.field_definitions[j]
               last == last_start + 1 + FieldEnd(last_definition.field_definitions, j)
           IN  field_definition.base_type = UnsignedInt32_base_type_number
                   /\ field_definition.size = 4
               => /\ most_recent_timestamp # None
                  /\ most_recent_timestamp
                         = Scalar(little_endian(SubSeq(raw_bytes, last - 3, last)))

\* The header bytes with bit 7 set, by the decode_record call that read them.
CompressedHeaderCalls ==
    {n \in 1..Len(record_starts) :
        HasByte(record_starts[n] + 1) /\ ByteAt(record_starts[n] + 1) >= 128}

BoundLocalTypes == {local_type_of(j) : j \in {i \in 1..Len(records) : IsDefinition(i)}}

\* C18: a data record, of normal or compressed-timestamp header, whose local
\* message type has no definition bound at that point of the stream makes
\* decode_file fail with FITFileContentError, and none of its field bytes is
\* consumed.
C18_UnboundLocalTypeRejected ==
    \A n \in 1..Len(record_starts) :
        IsDataAt(record_starts[n])
            /\ DefinersBefore(n, LocalTypeAt(record_starts[n])) = {}
        => /\ n = Len(record_starts)
           /\ Len(records) = n - 1
           /\ decode_file_rejected
           /\ bytes_read = record_starts[n] + 1

\* A compressed-timestamp data record of an unbound local type, rejected after
\* two records were decoded, one of them a definition of another local type.
C18_Witness_CompressedUnbound ==
    /\ Len(records) = 2
    /\ Len(record_starts) = 3
    /\ BoundLocalTypes # {}
    /\ IsDataAt(last_start)
    /\ ~IsNormalHeaderAt(last_start)
    /\ LocalTypeAt(last_start) \notin BoundLocalTypes
    /\ decode_file_rejected
    /\ bytes_read < Len(raw_bytes) - 2

\* read_byte raised at the end of the input.
end_of_file_raised == pc = "raised" /\ error.msg = "Unexpected end of file encountered"

\* C19: read_byte at the end of the input fails with FITFileContentError and
\* leaves bytes_read and the CRC state as they were, so bytes_read stays
\* within 0..len(raw_bytes), and a file whose data_size exceeds the bytes
\* that are there is rejected.
C19_ReadPastEndRejected ==
    /\ 0 <= bytes_read /\ bytes_read <= Len(raw_bytes)
    /\ end_of_file_raised =>
           /\ error.kind = "FITFileContentError"
           /\ bytes_read = Len(raw_bytes)
           /\ crc_current =
                  crc_of(SubSeq(raw_bytes, IF file_header.header_size = 14 THEN 15 ELSE 1,
                                Len(raw_bytes)))
    /\ header_accepted
           /\ file_header.data_size > Len(raw_bytes) - file_header.header_size
       => ~decode_file_returned

\* A file cut short inside its second record: the header declares more bytes
\* than follow it, and read_byte raised after the running CRC had taken in
\* every byte of the records.
C19_Witness_CutShortInRecord ==
    /\ end_of_file_raised
    /\ header_accepted
    /\ file_header.data_size > Len(raw_bytes) - file_header.header_size
    /\ Len(records) = 1
    /\ Len(record_starts) = 2
    /\ bytes_read > last_start
    /\ crc_current # 0

----------------------------------------------------------------------------
(* Properties of Profile.duplicates. *)

Occurs(x, iterable) == Cardinality({i \in 1..Len(iterable) : iterable[i] = x})
Reversed(iterable) == [i \in 1..Len(iterable) |-> iterable[Len(iterable) + 1 - i]]

\* C20: Profile.duplicates(elements) returns exactly the set of the elements
\* that occur more than once in elements, the empty set when there is none,
\* and the same set for the elements in another order.
C20_DuplicatesAreTheRepeatedElements ==
    pc = "duplicates_returned" =>
        /\ duplicates_result = {x \in SeqToSet(elements) : Occurs(x, elements) > 1}
        /\ duplicates(Reversed(elements)) = duplicates_result

\* A call like that of test_duplicates on [1, 1, 2, 3, 3]: two elements
\* repeated, one not.
C20_Witness_TwoRepeatedOneNot ==
    /\ pc = "duplicates_returned"
    /\ Cardinality(duplicates_result) = 2
    /\ SeqToSet(elements) \ duplicates_result # {}

----------------------------------------------------------------------------
(* Properties of ActivityDecoder.decode_activity. *)

HasMessage(class_name, value) ==
    \E i \in 1..Len(activity_messages) :
        activity_messages[i] = [class_name |-> class_name, value |-> value]

\* What the decoder at position i of the list is able to decode, read off
\* the messages as a whole.
Capable(i) ==
    CASE activity_decoders.items[i] = RunningDecoder ->
             /\ HasMessage("FileId", "Activity")
             /\ HasMessage("Sport", "Running")
             /\ HasMessage("Record", "heart_rate")
      [] activity_decoders.items[i] = RecordDecoder -> HasMessage("Record", "heart_rate")
      [] OTHER -> FALSE

FirstCapable(i) ==
    /\ i \in 1..Len(activity_decoders.items)
    /\ Capable(i)
    /\ \A j \in 1..(i - 1) : ~Capable(j)

DecodeCalls == {k \in 1..Len(activity_calls) : activity_calls[k].call = "decode"}

\* C21: decode_activity asks the decoders in the order of the list, calls
\* decode only on the first one that can decode the messages and returns its
\* result, and raises FITFileUnrecognizedActivityError when none can.
C21_FirstCapableDecoderDecodes ==
    pc \in {"activity_decoders", "activity_returned", "activity_raised"} =>
        /\ \A k \in DecodeCalls : FirstCapable(activity_calls[k].index)
        /\ \A k \in 1..Len(activity_calls) \ DecodeCalls : activity_calls[k].index = k
        /\ pc = "activity_decoders" =>
               /\ DecodeCalls = {}
               /\ \A j \in 1..(decoder_index - 1) : ~Capable(j)
        /\ pc = "activity_returned" =>
               /\ Cardinality(DecodeCalls) = 1
               /\ FirstCapable(decoder_index)
               /\ activity_result =
                      [tag |-> activity_decoders.items[decoder_index],
                       items |-> SelectSeq(activity_messages,
                                           LAMBDA m : m.class_name = "Record")]
        /\ pc = "activity_raised" =>
               /\ error = Raise("FITFileUnrecognizedActivityError", "")
               /\ DecodeCalls = {}
               /\ \A j \in 1..Len(activity_decoders.items) : ~Capable(j)

\* The second decoder of the list decoded, the first one being unable to.
C21_Witness_SecondDecoderDecodes ==
    /\ pc = "activity_returned"
    /\ decoder_index = 2
    /\ activity_decoders.items[1] = RunningDecoder
    /\ HasMessage("Record", "heart_rate")
    /\ Len(activity_result.items) > 0

----------------------------------------------------------------------------
(* Properties of CodeWriter. *)

\* Every tab of the content starts a line or follows a tab that does.
TabsStartLines ==
    \A i \in 1..Len(writer_content) :
        writer_content[i] = Tab => i = 1 \/ writer_content[i - 1] \in {Tab, NewLineChar}

\* The last call raised CodeWriterError: a fragment is open, and it left
\* indent_count and content as they were.
RaiseLeavesWriterAlone ==
    error.kind = "CodeWriterError" =>
        /\ in_fragment
        /\ writer_before = <<indent_count, writer_content>>

\* C27: after any sequence of CodeWriter calls, indent and unindent within an
\* open fragment raise CodeWriterError and change neither indent_count nor
\* content, tabs are written only at the start of a line, and indent_count
\* is never negative.
C27_WriterKeepsIndentation ==
    /\ RaiseLeavesWriterAlone
    /\ TabsStartLines
    /\ indent_count >= 0

\* The same without the sign of indent_count.
C27_WriterRaisesAndTabsStartLines ==
    /\ RaiseLeavesWriterAlone
    /\ TabsStartLines

----------------------------------------------------------------------------
(* Properties of Profile._parse_*_component_value. *)

component_call_ended ==
    pc \in {"_parse_str_component_value", "_parse_int_component_value",
            "_parse_bool_component_value", "raised"}

\* C28: for every val and every num_components >= 1 the three parsers return
\* a tuple of exactly num_components items: None repeated for '', the single
\* value repeated, or the comma-separated values.
C28_ComponentTupleHasNumComponents ==
    component_call_ended =>
        /\ pc # "raised"
        /\ Len(component_result) = num_components
        /\ is_empty_str(component_value) =>
               \A i \in 1..num_components : component_result[i] = PyNone

\* The same for a val that is '', not a str, or a str of one or of
\* num_components literals.
C28_ComponentTupleOfMatchingInput ==
    pc \in {"_parse_str_component_value", "_parse_int_component_value",
            "_parse_bool_component_value"}
    /\ (component_value.tag = "str" /\ component_value.value # <<>>
           => Len(split(component_value.value, 1, <<>>)) \in {1, num_components})
    => Len(component_result) = num_components

----------------------------------------------------------------------------
(* Properties of CRCCalculator. *)

\* C29: a calculator in any 16-bit state c that is fed the low byte and then
\* the high byte of c ends in state 0; so after a 14-byte header whose stored
\* nonzero CRC is valid the running CRC is 0 before decode_crc resets it,
\* and the reset changes the running CRC only when the header CRC was
\* accepted as zero.
C29_StoredCrcBringsCalculatorToZero ==
    /\ pc = "stored_crc_read" => error = Ok /\ bytes_read = 2 /\ crc_current = 0
    /\ HasHeaderCrc /\ header_accepted =>
           /\ crc_current = 0
           /\ stored_header_crc # 0 => crc_of(SubSeq(raw_bytes, 1, 14)) = 0
           /\ crc_of(SubSeq(raw_bytes, 1, 14)) # 0 => stored_header_crc = 0

\* A 14-byte header with a valid nonzero CRC was accepted.
C29_Witness_ValidHeaderCrcAccepted ==
    /\ HasHeaderCrc
    /\ header_accepted
    /\ stored_header_crc # 0
    /\ stored_header_crc = crc_of(SubSeq(raw_bytes, 1, 12))
    /\ bytes_read = 14
====
